---- MODULE Spec2Model ----
(***************************************************************************)
(* hsa-expense-analyzer-cli: the filename parser (parseFileName) and the   *)
(* aggregation fold (getTotalsByYear) of src/src/main.js.                  *)
(*                                                                         *)
(* A JavaScript string is a sequence of one-character strings.             *)
(* A JavaScript number that is a decimal amount is held in mills           *)
(* (thousandths of a dollar): 50.00 is 50000.                              *)
(***************************************************************************)
EXTENDS Integers, Sequences, FiniteSets, TLC

VARIABLES fileName, parsed,
          fileNames, idx, pc,
          expensesByYear, reimbursementsByYear, receiptCounts,
          invalidFiles, expensesByCategory, validReceipts, inherited,
          directory, argv, call, exitCode, thrown, printed, years, stats,
          result,
          loop, currentResolve, promises, sends, idleCount, asked

vars == <<fileName, parsed, fileNames, idx, pc, expensesByYear,
          reimbursementsByYear, receiptCounts, invalidFiles,
          expensesByCategory, validReceipts, inherited,
          directory, argv, call, exitCode, thrown, printed, years, stats,
          result, loop, currentResolve, promises, sends, idleCount, asked>>

mainVars == <<directory, argv, call, exitCode, thrown, printed, years, stats,
              result>>

parseVars == <<fileName, parsed>>

foldVars == <<fileNames, idx, pc, expensesByYear, reimbursementsByYear,
              receiptCounts, invalidFiles, expensesByCategory,
              validReceipts, inherited>>

copilotVars == <<loop, currentResolve, promises, sends, idleCount, asked>>

----------------------------------------------------------------------------
(* Characters and string primitives                                        *)

Digits == {"0", "1", "2", "3", "4", "5", "6", "7", "8", "9"}

LowerLetters == {"a", "b", "c", "d", "e", "f", "g", "h", "i", "j", "k", "l", "m",
                 "n", "o", "p", "q", "r", "s", "t", "u", "v", "w", "x", "y", "z"}

UpperLetters == {"A", "B", "C", "D", "E", "F", "G", "H", "I", "J", "K", "L", "M",
                 "N", "O", "P", "Q", "R", "S", "T", "U", "V", "W", "X", "Y", "Z"}

Letters == LowerLetters \cup UpperLetters

\* null and undefined: one-element sequences that no string equals, since
\* every element of a string is a single character.
Null == <<"null">>

Undefined == <<"undefined">>

DigitValue(c) ==
  CASE c = "0" -> 0 [] c = "1" -> 1 [] c = "2" -> 2 [] c = "3" -> 3
    [] c = "4" -> 4 [] c = "5" -> 5 [] c = "6" -> 6 [] c = "7" -> 7
    [] c = "8" -> 8 [] c = "9" -> 9

DigitChar(n) ==
  CASE n = 0 -> "0" [] n = 1 -> "1" [] n = 2 -> "2" [] n = 3 -> "3"
    [] n = 4 -> "4" [] n = 5 -> "5" [] n = 6 -> "6" [] n = 7 -> "7"
    [] n = 8 -> "8" [] n = 9 -> "9"

\* Number("0012") = 12 for a string of decimal digits
RECURSIVE ToNumber(_)
ToNumber(s) ==
  IF s = <<>> THEN 0
  ELSE 10 * ToNumber(SubSeq(s, 1, Len(s) - 1)) + DigitValue(s[Len(s)])

\* String(n) for an integer n >= 0
RECURSIVE ToDigits(_)
ToDigits(n) ==
  IF n < 10 THEN <<DigitChar(n)>>
  ELSE Append(ToDigits(n \div 10), DigitChar(n % 10))

AllIn(s, chars) == \A i \in 1..Len(s) : s[i] \in chars

\* s.startsWith(prefix)
StartsWith(s, prefix) ==
  /\ Len(s) >= Len(prefix)
  /\ SubSeq(s, 1, Len(prefix)) = prefix

\* sub occurs in s at position i (1-based)
OccursAt(s, sub, i) ==
  /\ i >= 1
  /\ i + Len(sub) - 1 <= Len(s)
  /\ SubSeq(s, i, i + Len(sub) - 1) = sub

\* s.indexOf(sub), 1-based; 0 when sub does not occur
IndexOf(s, sub) ==
  IF \E i \in 1..Len(s) : OccursAt(s, sub, i)
  THEN CHOOSE i \in 1..Len(s) :
         /\ OccursAt(s, sub, i)
         /\ \A j \in 1..(i - 1) : ~OccursAt(s, sub, j)
  ELSE 0

\* s.includes(sub)
Includes(s, sub) == IndexOf(s, sub) # 0

\* s.split(sep) for a non-empty separator
RECURSIVE Split(_, _)
Split(s, sep) ==
  LET i == IndexOf(s, sep)
  IN IF i = 0 THEN <<s>>
     ELSE <<SubSeq(s, 1, i - 1)>> \o Split(SubSeq(s, i + Len(sep), Len(s)), sep)

Separator == <<" ", "-", " ">>

ReimbursedMarker == <<".", "r", "e", "i", "m", "b", "u", "r", "s", "e", "d", ".">>

----------------------------------------------------------------------------
(* The regular expressions of parseFileName                                *)

\* /^\d{4}-\d{2}-\d{2}$/.test(date)
MatchesDateFormat(date) ==
  /\ Len(date) = 10
  /\ \A i \in {1, 2, 3, 4, 6, 7, 9, 10} : date[i] \in Digits
  /\ date[5] = "-"
  /\ date[8] = "-"

\* /\.[a-zA-Z]{2,5}$/.test(amountPart)
HasExtension(amountPart) ==
  \E n \in 2..5 :
    /\ Len(amountPart) >= n + 1
    /\ amountPart[Len(amountPart) - n] = "."
    /\ AllIn(SubSeq(amountPart, Len(amountPart) - n + 1, Len(amountPart)), Letters)

\* amountStr.replace(/\.reimbursed\..+$/, ''): the leftmost '.reimbursed.'
\* that is followed by at least one character, and everything after it
StripReimbursed(amountStr) ==
  LET i == IndexOf(amountStr, ReimbursedMarker)
  IN IF i # 0 /\ i + Len(ReimbursedMarker) - 1 < Len(amountStr)
     THEN SubSeq(amountStr, 1, i - 1)
     ELSE amountStr

\* amountStr.replace(/\.[^.]+$/, ''): the last '.' and the non-empty,
\* dot-free tail after it
StripExtension(amountStr) ==
  LET dots == {i \in 1..Len(amountStr) : amountStr[i] = "."}
  IN IF dots = {} THEN amountStr
     ELSE LET last == CHOOSE i \in dots : \A j \in dots : j <= i
          IN IF last < Len(amountStr) THEN SubSeq(amountStr, 1, last - 1)
             ELSE amountStr

\* /^\d+\.\d{2}$/.test(amountStr)
MatchesAmountFormat(amountStr) ==
  LET n == Len(amountStr)
  IN /\ n >= 4
     /\ amountStr[n - 2] = "."
     /\ AllIn(SubSeq(amountStr, 1, n - 3), Digits)
     /\ amountStr[n - 1] \in Digits
     /\ amountStr[n] \in Digits

\* parseFloat of a string matching /^\d+\.\d{2}$/, in mills
ParseFloat(amountStr) ==
  LET n == Len(amountStr)
  IN 1000 * ToNumber(SubSeq(amountStr, 1, n - 3))
       + 10 * ToNumber(SubSeq(amountStr, n - 1, n))

----------------------------------------------------------------------------
(* Number.prototype.toFixed(2) and the unary plus applied to its result    *)

\* Amounts below one dollar with a 5 in the third decimal whose double is
\* smaller than the decimal it was written as: toFixed(2) rounds them down
\* (0.015.toFixed(2) is "0.01"), every other such amount up.
TieRoundsDown == {15, 45, 75, 105, 145, 155, 175, 185, 205, 215, 235, 245,
                  285, 295, 305, 345, 355, 365, 415, 425, 435, 475, 485, 495,
                  565, 575, 585, 595, 605, 615, 695, 705, 715, 725, 735, 745,
                  815, 825, 835, 845, 855, 865, 945, 955, 965, 975, 985, 995}

\* a bug: the third decimal is cut off
NearestCentTruncated(x) == x \div 10

\* the integer n for which n / 100 is closest to x (x >= 0, in mills)
NearestCent(x) ==
  CASE x % 10 < 5 -> x \div 10
    [] x % 10 > 5 -> x \div 10 + 1
    [] x % 10 = 5 /\ x < 1000 -> IF x \in TieRoundsDown THEN x \div 10
                                 ELSE x \div 10 + 1

\* x.toFixed(2) for x >= 0
ToFixed2(x) ==
  LET n == NearestCent(x)
  IN ToDigits(n \div 100) \o <<".", DigitChar((n % 100) \div 10), DigitChar(n % 10)>>

\* a bug: the sum is stored as the addition left it
NotRounded(x) == x

\* +(x).toFixed(2)
RoundedSum(x) == ParseFloat(ToFixed2(x))

\* The sums a + b of two amounts of whole cents whose double is not the
\* double of the decimal sum, as 30.1 + 0.1 is 30.200000000000003 and
\* 80.1 + 0.1 is 80.19999999999999, for the amounts the listings below and
\* the tool handlers add up. The numbers of the model are mills, so the double above the decimal
\* sum is shown as one mill more and the double below it as one mill less.
SumsAbove ==
  {<<100, 30100>>, <<30100, 100>>, <<1100, 30100>>, <<31100, 100>>,
   <<200, 100>>, <<50200, 100>>, <<51200, 100>>}

SumsBelow == {<<80100, 100>>, <<81100, 100>>}

\* a + b on doubles
FloatSum(a, b) ==
  CASE <<a, b>> \in SumsAbove -> a + b + 1
    [] <<a, b>> \in SumsBelow -> a + b - 1
    [] OTHER -> a + b

----------------------------------------------------------------------------
(* new Date(`${date}T00:00:00`) and its getters                            *)

IsLeapYear(y) == (y % 4 = 0 /\ y % 100 # 0) \/ y % 400 = 0

DaysInMonth(y, m) ==
  CASE m \in {1, 3, 5, 7, 8, 10, 12} -> 31
    [] m \in {4, 6, 9, 11} -> 30
    [] m = 2 -> IF IsLeapYear(y) THEN 29 ELSE 28

\* The date-time string parser takes a month 01..12 and a day 01..31 and
\* answers Invalid Date (valid = FALSE, every getter NaN) for anything else;
\* a day past the end of the month carries into the next month.
NewDate(y, m, d) ==
  IF m \notin 1..12 \/ d \notin 1..31
  THEN [valid |-> FALSE, fullYear |-> 0, month |-> 0, date |-> 0]
  ELSE IF d <= DaysInMonth(y, m)
       THEN [valid |-> TRUE, fullYear |-> y, month |-> m - 1, date |-> d]
       ELSE [valid |-> TRUE, fullYear |-> y, month |-> m, date |-> d - DaysInMonth(y, m)]

\* getter !== n, where the getter of an Invalid Date is NaN
GetterDiffers(dateObj, getter, n) == ~dateObj.valid \/ getter # n

----------------------------------------------------------------------------
(* parseFileName                                                           *)

FormatError == <<"File name should have format \"yyyy-mm-dd - description - $amount.ext\"">>

DateError(date) == <<"Date \"", date, "\" should be yyyy-mm-dd format">>

DollarError(amountPart) == <<"Amount \"", amountPart, "\" should start with $">>

ExtensionError == <<"File is missing extension (should end with .pdf, .jpg, etc.)">>

AmountError(amountPart) == <<"Amount \"", amountPart, "\" should be a valid format like $50.00">>

Invalid(description, error) ==
  [year |-> Null, description |-> description, amount |-> 0,
   isReimbursement |-> FALSE, isValid |-> FALSE, error |-> error]

\* a bug: the Date is only asked whether it is valid, its getters never compared
IsRealDateOnlyValid(date) ==
  NewDate(ToNumber(SubSeq(date, 1, 4)), ToNumber(SubSeq(date, 6, 7)),
          ToNumber(SubSeq(date, 9, 10))).valid

\* the date really is the calendar date it spells
IsRealDate(date) ==
  LET yearNum == ToNumber(SubSeq(date, 1, 4))
      monthNum == ToNumber(SubSeq(date, 6, 7))
      dayNum == ToNumber(SubSeq(date, 9, 10))
      dateObj == NewDate(yearNum, monthNum, dayNum)
  IN ~(\/ GetterDiffers(dateObj, dateObj.fullYear, yearNum)
       \/ GetterDiffers(dateObj, dateObj.month, monthNum - 1)
       \/ GetterDiffers(dateObj, dateObj.date, dayNum))

\* a bug: the '.reimbursed.' suffix is never looked for
StripAmountExtensionOnly(amountPart) ==
  StripExtension(SubSeq(amountPart, 2, Len(amountPart)))

\* the amount token without its '$' and without its suffix
StripAmount(amountPart) ==
  LET amountStr == SubSeq(amountPart, 2, Len(amountPart))
  IN IF Includes(amountStr, ReimbursedMarker)
     THEN StripReimbursed(amountStr)
     ELSE StripExtension(amountStr)

\* a bug: the marker is looked for in the amount token only
AcceptedMarkerInAmount(name, date, description, amountPart) ==
  [year |-> SubSeq(date, 1, 4),
   description |-> description,
   amount |-> ParseFloat(StripAmount(amountPart)),
   isReimbursement |-> Includes(amountPart, ReimbursedMarker),
   isValid |-> TRUE,
   error |-> Undefined]

\* a bug: the amount is read with parseInt and loses its cents
AcceptedParseInt(name, date, description, amountPart) ==
  [year |-> SubSeq(date, 1, 4),
   description |-> description,
   amount |-> 1000 * (ParseFloat(StripAmount(amountPart)) \div 1000),
   isReimbursement |-> Includes(name, ReimbursedMarker),
   isValid |-> TRUE,
   error |-> Undefined]

\* the result for a name that passed every check
Accepted(name, date, description, amountPart) ==
  [year |-> Split(date, <<"-">>)[1],
   description |-> description,
   amount |-> ParseFloat(StripAmount(amountPart)),
   isReimbursement |-> Includes(name, ReimbursedMarker),
   isValid |-> TRUE,
   error |-> Undefined]

\* a bug: the '$' check is made before the two date checks
parseFileNameDollarFirst(name) ==
  LET parts == Split(name, Separator)
  IN IF Len(parts) # 3 THEN Invalid(Null, FormatError)
     ELSE
       LET date == parts[1]
           description == parts[2]
           amountPart == parts[3]
       IN IF amountPart = <<>> \/ ~StartsWith(amountPart, <<"$">>)
               THEN Invalid(Undefined, DollarError(amountPart))
          ELSE IF ~MatchesDateFormat(date) THEN Invalid(Undefined, DateError(date))
          ELSE IF ~IsRealDate(date) THEN Invalid(Undefined, DateError(date))
          ELSE IF ~HasExtension(amountPart) THEN Invalid(Undefined, ExtensionError)
          ELSE IF ~MatchesAmountFormat(StripAmount(amountPart))
               THEN Invalid(Undefined, AmountError(amountPart))
          ELSE Accepted(name, date, description, amountPart)

parseFileName(name) ==
  LET parts == Split(name, Separator)
  IN IF Len(parts) # 3 THEN Invalid(Null, FormatError)
     ELSE
       LET date == parts[1]
           description == parts[2]
           amountPart == parts[3]
       IN IF ~MatchesDateFormat(date) THEN Invalid(Undefined, DateError(date))
          ELSE IF ~IsRealDate(date) THEN Invalid(Undefined, DateError(date))
          ELSE IF amountPart = <<>> \/ ~StartsWith(amountPart, <<"$">>)
               THEN Invalid(Undefined, DollarError(amountPart))
          ELSE IF ~HasExtension(amountPart) THEN Invalid(Undefined, ExtensionError)
          ELSE IF ~MatchesAmountFormat(StripAmount(amountPart))
               THEN Invalid(Undefined, AmountError(amountPart))
          ELSE Accepted(name, date, description, amountPart)

----------------------------------------------------------------------------
(* Inputs of the parser: file names put together from a date, a            *)
(* description and an amount token, well-formed and not                    *)

MaxMonth == 13

MaxDay == 32

InputYears == {1900, 2000, 2020, 2021}

Pad2(n) == <<DigitChar(n \div 10), DigitChar(n % 10)>>

Pad4(n) == Pad2(n \div 100) \o Pad2(n % 100)

DateString(y, m, d) == Pad4(y) \o <<"-">> \o Pad2(m) \o <<"-">> \o Pad2(d)

\* every yyyy-mm-dd of the input years, months 00..MaxMonth, days 00..MaxDay
CalendarInputs ==
  {DateString(y, m, d) : y \in InputYears, m \in 0..MaxMonth, d \in 0..MaxDay}

\* 2021-1-25, 2021/01/25, x2021-01-25, 2021-01-2a
MalformedDates ==
  {<<"2", "0", "2", "1", "-", "1", "-", "2", "5">>,
   <<"2", "0", "2", "1", "/", "0", "1", "/", "2", "5">>,
   <<"x", "2", "0", "2", "1", "-", "0", "1", "-", "2", "5">>,
   <<"2", "0", "2", "1", "-", "0", "1", "-", "2", "a">>}

\* $50.00.pdf, $50,00.pdf, $50.pdf, 50.00.pdf, $50.00, $50.00.reimbursed.pdf, $0.00.pdf,
\* $007.50.pdf, $5.00.p, $5.00.abcdef, $5.00.p3f, $.50.pdf, $5.000.pdf, $5.00.reimbursed.pdf.reimbursed.jpg,
\* $5.0.reimbursed.pdf, (empty), $5.00.tar.gz, $12.34.HEIC, $5.00.reimbursed., $1.005.reimbursed.x.png, $-5.00.pdf, $1234.56.jpeg
AmountTokens ==
  {<<"$", "5", "0", ".", "0", "0", ".", "p", "d", "f">>,
   <<"$", "5", "0", ",", "0", "0", ".", "p", "d", "f">>,
   <<"$", "5", "0", ".", "p", "d", "f">>,
   <<"5", "0", ".", "0", "0", ".", "p", "d", "f">>,
   <<"$", "5", "0", ".", "0", "0">>,
   <<"$", "5", "0", ".", "0", "0", ".", "r", "e", "i", "m", "b", "u", "r", "s", "e", "d", ".", "p", "d", "f">>,
   <<"$", "0", ".", "0", "0", ".", "p", "d", "f">>,
   <<"$", "0", "0", "7", ".", "5", "0", ".", "p", "d", "f">>,
   <<"$", "5", ".", "0", "0", ".", "p">>,
   <<"$", "5", ".", "0", "0", ".", "a", "b", "c", "d", "e", "f">>,
   <<"$", "5", ".", "0", "0", ".", "p", "3", "f">>,
   <<"$", ".", "5", "0", ".", "p", "d", "f">>,
   <<"$", "5", ".", "0", "0", "0", ".", "p", "d", "f">>,
   <<"$", "5", ".", "0", "0", ".", "r", "e", "i", "m", "b", "u", "r", "s", "e", "d", ".", "p", "d", "f", ".", "r", "e", "i", "m", "b", "u", "r", "s", "e", "d", ".", "j", "p", "g">>,
   <<"$", "5", ".", "0", ".", "r", "e", "i", "m", "b", "u", "r", "s", "e", "d", ".", "p", "d", "f">>,
   <<>>,
   <<"$", "5", ".", "0", "0", ".", "t", "a", "r", ".", "g", "z">>,
   <<"$", "1", "2", ".", "3", "4", ".", "H", "E", "I", "C">>,
   <<"$", "5", ".", "0", "0", ".", "r", "e", "i", "m", "b", "u", "r", "s", "e", "d", ".">>,
   <<"$", "1", ".", "0", "0", "5", ".", "r", "e", "i", "m", "b", "u", "r", "s", "e", "d", ".", "x", ".", "p", "n", "g">>,
   <<"$", "-", "5", ".", "0", "0", ".", "p", "d", "f">>,
   <<"$", "1", "2", "3", "4", ".", "5", "6", ".", "j", "p", "e", "g">>}

\* doctor, (empty), Josh doctor, a.reimbursed.b, a-b
Descriptions ==
  {<<"d", "o", "c", "t", "o", "r">>,
   <<>>,
   <<"J", "o", "s", "h", " ", "d", "o", "c", "t", "o", "r">>,
   <<"a", ".", "r", "e", "i", "m", "b", "u", "r", "s", "e", "d", ".", "b">>,
   <<"a", "-", "b">>}

FirstSeparators == {Separator, <<"-", " ">>, <<" ">>}

SecondSeparators == {Separator, <<" ", "-">>, Separator \o <<"x">> \o Separator}

PlainToken == <<"$", "5", "0", ".", "0", "0", ".", "p", "d", "f">>

ParseInputs ==
  {date \o Separator \o <<"d", "o", "c">> \o Separator \o amt :
     date \in CalendarInputs,
     amt \in {PlainToken, SubSeq(PlainToken, 2, Len(PlainToken))}}
  \cup
  {date \o sep1 \o desc \o sep2 \o amt :
     date \in {DateString(2021, 1, 25), DateString(2021, 2, 30)} \cup MalformedDates,
     sep1 \in FirstSeparators, desc \in Descriptions,
     sep2 \in SecondSeparators, amt \in AmountTokens}

----------------------------------------------------------------------------
(* The state before any call                                               *)

NoCall == <<>>

EmptyObject == <<>>

\* Properties every object inherits and that a lower-case key can name:
\* '__proto__' is Object.prototype and 'constructor' is the function Object.
\* Neither has an expenses, reimbursements or count property at start.
InheritedKeys ==
  {<<"_", "_", "p", "r", "o", "t", "o", "_", "_">>,
   <<"c", "o", "n", "s", "t", "r", "u", "c", "t", "o", "r">>}

InitInherited ==
  [k \in InheritedKeys |->
     [expenses |-> "undefined", reimbursements |-> "undefined", count |-> "undefined"]]

FoldIdle ==
  /\ fileNames = <<>>
  /\ idx = 0
  /\ pc = "idle"
  /\ expensesByYear = EmptyObject
  /\ reimbursementsByYear = EmptyObject
  /\ receiptCounts = EmptyObject
  /\ invalidFiles = <<>>
  /\ expensesByCategory = EmptyObject
  /\ validReceipts = <<>>
  /\ inherited = InitInherited

\* main has not run: no directory, no flags, nothing printed or computed
\* startCopilotAnalysis has not been called
CopilotIdle ==
  /\ loop = "none"
  /\ currentResolve = <<>>
  /\ promises = <<>>
  /\ sends = <<>>
  /\ idleCount = 0
  /\ asked = 0

MainIdle ==
  /\ CopilotIdle
  /\ directory = <<>>
  /\ argv = [byCategory |-> FALSE, summaryOnly |-> FALSE]
  /\ call = <<>>
  /\ exitCode = <<>>
  /\ thrown = <<>>
  /\ printed = <<>>
  /\ years = <<>>
  /\ stats = <<>>
  /\ result = <<>>

----------------------------------------------------------------------------
(* Specification of the parser alone: one call on one file name            *)

InitParse ==
  /\ fileName \in ParseInputs
  /\ parsed = NoCall
  /\ FoldIdle
  /\ MainIdle

Parse ==
  /\ parsed = NoCall
  /\ parsed' = <<parseFileName(fileName)>>
  /\ UNCHANGED <<fileName, foldVars, mainVars, copilotVars>>

NextParse == Parse

SpecParse == InitParse /\ [][NextParse]_vars

----------------------------------------------------------------------------
(* Properties of the parser (checked under SpecParse)                      *)

Called == parsed # NoCall

Result == parsed[1]

Segments == Split(fileName, Separator)

DateSegment == Segments[1]

AmountToken == Segments[3]

\* the day exists in that month of that year
OnCalendar(date) ==
  LET y == ToNumber(SubSeq(date, 1, 4))
      m == ToNumber(SubSeq(date, 6, 7))
      d == ToNumber(SubSeq(date, 9, 10))
  IN /\ m >= 1 /\ m <= 12
     /\ d >= 1 /\ d <= 31
     /\ (m \in {4, 6, 9, 11} => d <= 30)
     /\ (m = 2 => d <= 29)
     /\ (m = 2 /\ d = 29 => (y % 4 = 0 /\ (y % 100 # 0 \/ y % 400 = 0)))

\* the amount token without its '$' and without everything from the first
\* '.reimbursed.' on, or else without its final '.ext'
TokenBody(token) ==
  LET body == Tail(token)
      marks == {i \in 1..Len(body) : OccursAt(body, ReimbursedMarker, i)}
      dots == {i \in 1..Len(body) : body[i] = "."}
  IN IF marks # {}
     THEN SubSeq(body, 1, (CHOOSE i \in marks : \A j \in marks : i <= j) - 1)
     ELSE SubSeq(body, 1, (CHOOSE i \in dots : \A j \in dots : j <= i) - 1)

\* one or more digits, a '.', exactly two digits
IsDollarsAndCents(str) ==
  \E k \in 1..Len(str) :
    /\ Len(str) = k + 3
    /\ \A i \in 1..k : str[i] \in Digits
    /\ str[k + 1] = "."
    /\ str[k + 2] \in Digits /\ str[k + 3] \in Digits

\* the six checks, by number; checks 2 to 6 read the segments and are only
\* asked of a name that has three
CheckFails(k) ==
  CASE k = 1 -> Len(Segments) # 3
    [] k = 2 -> ~MatchesDateFormat(DateSegment)
    [] k = 3 -> MatchesDateFormat(DateSegment) /\ ~OnCalendar(DateSegment)
    [] k = 4 -> AmountToken = <<>> \/ Head(AmountToken) # "$"
    [] k = 5 -> ~HasExtension(AmountToken)
    [] k = 6 -> AmountToken = <<>> \/ ~IsDollarsAndCents(TokenBody(AmountToken))

FailedChecks ==
  IF Len(Segments) # 3 THEN {1}
  ELSE {k \in 2..6 : CheckFails(k)}

ErrorOfCheck(k) ==
  CASE k = 1 -> FormatError
    [] k = 2 -> DateError(DateSegment)
    [] k = 3 -> DateError(DateSegment)
    [] k = 4 -> DollarError(AmountToken)
    [] k = 5 -> ExtensionError
    [] k = 6 -> AmountError(AmountToken)

FirstFailedCheck == CHOOSE k \in FailedChecks : \A j \in FailedChecks : k <= j

\* C1: the error parseFileName returns is the one of the first failing check
\* in the order segments, date format, calendar date, '$', extension, amount
\* format, and the name is valid exactly when no check fails.
FirstFailingCheckWins ==
  Called =>
    /\ Result.isValid <=> FailedChecks = {}
    /\ FailedChecks # {} => Result.error = ErrorOfCheck(FirstFailedCheck)
    /\ FailedChecks = {} => Result.error = Undefined

\* a name failing the date check and the '$' check was parsed
SeveralChecksFailWitness ==
  /\ Called
  /\ Len(Segments) = 3
  /\ {2, 4} \subseteq FailedChecks
  /\ Result.error = DateError(DateSegment)

\* C2: a date segment of the form dddd-dd-dd passes the date checks exactly
\* when its month is 01-12 and its day exists in that month of that year;
\* otherwise the result is invalid with the yyyy-mm-dd error.
CalendarDateAccepted ==
  (Called /\ Len(Segments) = 3 /\ MatchesDateFormat(DateSegment)) =>
    /\ OnCalendar(DateSegment) => Result.error # DateError(DateSegment)
    /\ ~OnCalendar(DateSegment) =>
         /\ ~Result.isValid
         /\ Result.error = DateError(DateSegment)

\* 29 February of a year that is no leap year was rejected
ImpossibleDateWitness ==
  /\ Called
  /\ Len(Segments) = 3
  /\ DateSegment = DateString(1900, 2, 29)
  /\ Result.error = DateError(DateSegment)

PassesFirstFiveChecks ==
  /\ Len(Segments) = 3
  /\ FailedChecks \cap {2, 3, 4, 5} = {}

ContainsMarker(str) ==
  \E i \in 1..Len(str) : OccursAt(str, ReimbursedMarker, i)

\* C4: a valid name is a reimbursement exactly when '.reimbursed.' occurs
\* anywhere in the whole name.
ReimbursementIsWholeName ==
  (Called /\ Result.isValid) =>
    (Result.isReimbursement <=> ContainsMarker(fileName))

\* a valid name with the marker in its description only
MarkerInDescriptionWitness ==
  /\ Called
  /\ Result.isValid
  /\ Result.isReimbursement
  /\ ~ContainsMarker(AmountToken)

\* C5 as stated: for every accepted name, '$' and the amount with two
\* decimals is the amount token without its suffix.
RoundTripEveryName ==
  (Called /\ Result.isValid) =>
    <<"$">> \o ToFixed2(Result.amount) = <<"$">> \o TokenBody(AmountToken)

\* the integer part is written without a leading zero it does not need
NoLeadingZero(str) == Len(str) = 4 \/ Head(str) # "0"

\* C5 amended: the round trip holds for accepted names whose amount is
\* written without a superfluous leading zero.
RoundTripCanonical ==
  (Called /\ Result.isValid /\ NoLeadingZero(TokenBody(AmountToken))) =>
    <<"$">> \o ToFixed2(Result.amount) = <<"$">> \o TokenBody(AmountToken)

\* '$1234.56.jpeg' was accepted and gives '$1234.56' back
RoundTripWitness ==
  /\ Called
  /\ Result.isValid
  /\ TokenBody(AmountToken) = <<"1", "2", "3", "4", ".", "5", "6">>
  /\ ToFixed2(Result.amount) = TokenBody(AmountToken)

----------------------------------------------------------------------------
(* Objects used as maps                                                    *)

\* obj[key] = value on an object whose own keys are DOMAIN obj
SetKey(obj, key, value) ==
  [k \in DOMAIN obj \cup {key} |-> IF k = key THEN value ELSE obj[k]]

HasOwn(obj, key) == key \in DOMAIN obj

\* str.trim(), of a string whose only white space is the space
RECURSIVE Trim(_)
Trim(str) ==
  IF str # <<>> /\ Head(str) = " " THEN Trim(Tail(str))
  ELSE IF str # <<>> /\ str[Len(str)] = " " THEN Trim(SubSeq(str, 1, Len(str) - 1))
  ELSE str

UpperAlphabet == <<"A", "B", "C", "D", "E", "F", "G", "H", "I", "J", "K", "L", "M",
                   "N", "O", "P", "Q", "R", "S", "T", "U", "V", "W", "X", "Y", "Z">>

LowerAlphabet == <<"a", "b", "c", "d", "e", "f", "g", "h", "i", "j", "k", "l", "m",
                   "n", "o", "p", "q", "r", "s", "t", "u", "v", "w", "x", "y", "z">>

\* str.toLowerCase()
ToLowerCase(str) ==
  [i \in 1..Len(str) |->
     IF str[i] \in UpperLetters
     THEN LowerAlphabet[CHOOSE k \in 1..Len(UpperAlphabet) : UpperAlphabet[k] = str[i]]
     ELSE str[i]]

Uncategorized == <<"u", "n", "c", "a", "t", "e", "g", "o", "r", "i", "z", "e", "d">>

\* (description.trim().split(' ')[0] || 'uncategorized').toLowerCase()
CategoryOf(description) ==
  LET first == Split(Trim(description), <<" ">>)[1]
  IN ToLowerCase(IF first = <<>> THEN Uncategorized ELSE first)

----------------------------------------------------------------------------
(* getTotalsByYear: the accumulators and one iteration of the loop         *)

\* a bug: no name is taken for hidden
IsHiddenNever(name) == FALSE

\* fileName.startsWith('.')
IsHidden(name) == StartsWith(name, <<".">>)

\* the six accumulators, and the inherited objects the fold can write to
Acc ==
  [expensesByYear |-> expensesByYear,
   reimbursementsByYear |-> reimbursementsByYear,
   receiptCounts |-> receiptCounts,
   invalidFiles |-> invalidFiles,
   expensesByCategory |-> expensesByCategory,
   validReceipts |-> validReceipts,
   inherited |-> inherited]

EmptyAcc ==
  [expensesByYear |-> EmptyObject,
   reimbursementsByYear |-> EmptyObject,
   receiptCounts |-> EmptyObject,
   invalidFiles |-> <<>>,
   expensesByCategory |-> EmptyObject,
   validReceipts |-> <<>>,
   inherited |-> InitInherited]

\* a bug: the invalid name is dropped without a record
WithInvalidUnrecorded(acc, name, error) == acc

\* invalidFiles.push({ fileName, error })
WithInvalid(acc, name, error) ==
  [acc EXCEPT !.invalidFiles = Append(@, [fileName |-> name, error |-> error])]

\* the own entries of expensesByCategory[year], in insertion order, each
\* [category, expenses, reimbursements, count]
OwnIndex(entries, category) ==
  IF \E i \in 1..Len(entries) : entries[i].category = category
  THEN CHOOSE i \in 1..Len(entries) : entries[i].category = category
  ELSE 0

\* !expensesByCategory[year][category] is false when the category is an own
\* key (an object) or names an inherited object; an inherited NaN, undefined
\* or a missing key make it true
CategoryIsTruthy(entries, category) ==
  OwnIndex(entries, category) # 0 \/ category \in InheritedKeys

\* a bug: a new year gets no reimbursementsByYear entry
InitYearNoReimbursements(acc, year) ==
  IF ~HasOwn(acc.expensesByYear, year) \/ acc.expensesByYear[year] = 0
  THEN [acc EXCEPT !.expensesByYear = SetKey(@, year, 0),
                   !.receiptCounts = SetKey(@, year, 0),
                   !.expensesByCategory = SetKey(@, year, <<>>)]
  ELSE acc

\* if (!expensesByYear[year]) { ... }
InitYear(acc, year) ==
  IF ~HasOwn(acc.expensesByYear, year) \/ acc.expensesByYear[year] = 0
  THEN [acc EXCEPT !.expensesByYear = SetKey(@, year, 0),
                   !.reimbursementsByYear = SetKey(@, year, 0),
                   !.receiptCounts = SetKey(@, year, 0),
                   !.expensesByCategory = SetKey(@, year, <<>>)]
  ELSE acc

\* a bug: the category's entry is made anew for every receipt
InitCategoryAlways(acc, year, category) ==
  LET i == OwnIndex(acc.expensesByCategory[year], category)
      fresh == [category |-> category, expenses |-> 0,
                reimbursements |-> 0, count |-> 0]
  IN IF i # 0
     THEN [acc EXCEPT !.expensesByCategory[year][i] = fresh]
     ELSE IF ~CategoryIsTruthy(acc.expensesByCategory[year], category)
          THEN [acc EXCEPT !.expensesByCategory[year] = Append(@, fresh)]
          ELSE acc

\* if (!expensesByCategory[year][category]) { ... }
InitCategory(acc, year, category) ==
  IF ~CategoryIsTruthy(acc.expensesByCategory[year], category)
  THEN [acc EXCEPT !.expensesByCategory[year] =
          Append(@, [category |-> category, expenses |-> 0,
                     reimbursements |-> 0, count |-> 0])]
  ELSE acc

\* a bug: the year's total is assigned the amount instead of being added to
AddExpenseAssigned(acc, year, category, amount) ==
  LET i == OwnIndex(acc.expensesByCategory[year], category)
      yearly == [acc EXCEPT !.expensesByYear[year] = RoundedSum(amount)]
  IN IF i # 0
     THEN [yearly EXCEPT
             !.expensesByCategory[year][i].expenses = RoundedSum(FloatSum(@, amount)),
             !.expensesByCategory[year][i].count = @ + 1]
     ELSE [yearly EXCEPT
             !.inherited[category].expenses = "NaN",
             !.inherited[category].count = "NaN"]

\* Lines 200-202. On an own category entry the additions are sums rounded
\* to cents. When the category names an inherited object, that object has
\* no expenses or count: undefined + amount is NaN, NaN stays NaN, and the
\* NaN is written to the inherited object, not to expensesByCategory[year].
AddExpense(acc, year, category, amount) ==
  LET i == OwnIndex(acc.expensesByCategory[year], category)
      yearly == [acc EXCEPT !.expensesByYear[year] = RoundedSum(FloatSum(@, amount))]
  IN IF i # 0
     THEN [yearly EXCEPT
             !.expensesByCategory[year][i].expenses = RoundedSum(FloatSum(@, amount)),
             !.expensesByCategory[year][i].count = @ + 1]
     ELSE [yearly EXCEPT
             !.inherited[category].expenses = "NaN",
             !.inherited[category].count = "NaN"]

\* Lines 206-209, with the same two cases
AddReimbursement(acc, year, category, amount) ==
  LET i == OwnIndex(acc.expensesByCategory[year], category)
      yearly == [acc EXCEPT !.reimbursementsByYear[year] = RoundedSum(FloatSum(@, amount))]
  IN IF i # 0
     THEN [yearly EXCEPT
             !.expensesByCategory[year][i].reimbursements = RoundedSum(FloatSum(@, amount))]
     ELSE [yearly EXCEPT !.inherited[category].reimbursements = "NaN"]

\* a bug: a reimbursed receipt is added to the reimbursements only
AddReceiptReimbursementOnly(acc, year, category, amount, isReimbursement) ==
  LET reimb == IF isReimbursement
               THEN AddReimbursement(acc, year, category, amount)
               ELSE AddExpense(acc, year, category, amount)
  IN [reimb EXCEPT !.receiptCounts[year] = @ + 1]

\* Lines 199-212
AddReceipt(acc, year, category, amount, isReimbursement) ==
  LET expense == AddExpense(acc, year, category, amount)
      reimb == IF isReimbursement
               THEN AddReimbursement(expense, year, category, amount)
               ELSE expense
  IN [reimb EXCEPT !.receiptCounts[year] = @ + 1]

\* a bug: the test is amount >= 0
IsPositiveOrZero(amount) == amount >= 0

\* amount > 0
IsPositive(amount) == amount > 0

\* a bug: the receipt is put at the front of validReceipts
WithReceiptUnshifted(acc, name, r) ==
  LET category == CategoryOf(r.description)
      pushed == [acc EXCEPT !.validReceipts =
                   <<[date |-> Split(name, Separator)[1],
                      year |-> r.year,
                      description |-> r.description,
                      amount |-> r.amount,
                      isReimbursed |-> r.isReimbursement,
                      category |-> category]>> \o @]
  IN AddReceipt(InitCategory(InitYear(pushed, r.year), r.year, category),
                r.year, category, r.amount, r.isReimbursement)

\* the body of if (amount > 0)
WithReceipt(acc, name, r) ==
  LET category == CategoryOf(r.description)
      pushed == [acc EXCEPT !.validReceipts =
                   Append(@, [date |-> Split(name, Separator)[1],
                              year |-> r.year,
                              description |-> r.description,
                              amount |-> r.amount,
                              isReimbursed |-> r.isReimbursement,
                              category |-> category])]
  IN AddReceipt(InitCategory(InitYear(pushed, r.year), r.year, category),
                r.year, category, r.amount, r.isReimbursement)

\* one iteration of for (const fileName of fileNames)
ProcessEntry(acc, name) ==
  IF IsHidden(name) THEN acc
  ELSE LET r == parseFileName(name)
       IN IF ~r.isValid THEN WithInvalid(acc, name, r.error)
          ELSE IF IsPositive(r.amount) THEN WithReceipt(acc, name, r)
          ELSE acc

\* the whole loop over a listing
RECURSIVE ProcessAll(_, _)
ProcessAll(acc, names) ==
  IF names = <<>> THEN acc
  ELSE ProcessAll(ProcessEntry(acc, Head(names)), Tail(names))

getTotalsByYear(names) == ProcessAll(EmptyAcc, names)

----------------------------------------------------------------------------
(* Directory listings                                                      *)

MaxFiles == 3

\* 2021-01-01 - Josh doctor - $50.00.pdf
JoshDoctor ==
  <<"2", "0", "2", "1", "-", "0", "1", "-", "0", "1", " ", "-", " ", "J", "o", "s", "h", " ", "d", "o", "c", "t", "o", "r", " ", "-", " ", "$", "5", "0", ".", "0", "0", ".", "p", "d", "f">>

\* 2021-02-15 - josh rx - $30.10.reimbursed.pdf
JoshRx ==
  <<"2", "0", "2", "1", "-", "0", "2", "-", "1", "5", " ", "-", " ", "j", "o", "s", "h", " ", "r", "x", " ", "-", " ", "$", "3", "0", ".", "1", "0", ".", "r", "e", "i", "m", "b", "u", "r", "s", "e", "d", ".", "p", "d", "f">>

\* 2022-03-15 - jane - $0.20.png
JaneGlasses ==
  <<"2", "0", "2", "2", "-", "0", "3", "-", "1", "5", " ", "-", " ", "j", "a", "n", "e", " ", "-", " ", "$", "0", ".", "2", "0", ".", "p", "n", "g">>

\* 2021-01-10 - x - $50,00.pdf
CommaAmount ==
  <<"2", "0", "2", "1", "-", "0", "1", "-", "1", "0", " ", "-", " ", "x", " ", "-", " ", "$", "5", "0", ",", "0", "0", ".", "p", "d", "f">>

\* doctor.pdf
MissingAmount ==
  <<"d", "o", "c", "t", "o", "r", ".", "p", "d", "f">>

\* .DS_Store
DsStore ==
  <<".", "D", "S", "_", "S", "t", "o", "r", "e">>

\* 2021-01-05 - gift - $0.00.pdf
ZeroAmount ==
  <<"2", "0", "2", "1", "-", "0", "1", "-", "0", "5", " ", "-", " ", "g", "i", "f", "t", " ", "-", " ", "$", "0", ".", "0", "0", ".", "p", "d", "f">>

\* 2021-03-01 -  - $0.10.pdf
NoDescription ==
  <<"2", "0", "2", "1", "-", "0", "3", "-", "0", "1", " ", "-", " ", " ", "-", " ", "$", "0", ".", "1", "0", ".", "p", "d", "f">>

\* 2022-01-01 - constructor fee - $5.00.reimbursed.pdf
ConstructorFee ==
  <<"2", "0", "2", "2", "-", "0", "1", "-", "0", "1", " ", "-", " ", "c", "o", "n", "s", "t", "r", "u", "c", "t", "o", "r", " ", "f", "e", "e", " ", "-", " ", "$", "5", ".", "0", "0", ".", "r", "e", "i", "m", "b", "u", "r", "s", "e", "d", ".", "p", "d", "f">>

\* 2021-04-01 - __proto__ - $1.00.pdf
ProtoVisit ==
  <<"2", "0", "2", "1", "-", "0", "4", "-", "0", "1", " ", "-", " ", "_", "_", "p", "r", "o", "t", "o", "_", "_", " ", "-", " ", "$", "1", ".", "0", "0", ".", "p", "d", "f">>

ListingPool ==
  {JoshDoctor,
   JoshRx,
   JaneGlasses,
   CommaAmount,
   MissingAmount,
   DsStore,
   ZeroAmount,
   NoDescription,
   ConstructorFee,
   ProtoVisit}

\* a directory holds no name twice
Listings ==
  {names \in UNION {[1..n -> ListingPool] : n \in 0..MaxFiles} :
     \A i, j \in 1..Len(names) : i # j => names[i] # names[j]}

----------------------------------------------------------------------------
(* Specification of the fold: getTotalsByYear on one listing               *)

Init ==
  /\ fileNames \in Listings
  /\ idx = 0
  /\ pc = "loop"
  /\ fileName = <<>>
  /\ parsed = NoCall
  /\ expensesByYear = EmptyObject
  /\ reimbursementsByYear = EmptyObject
  /\ receiptCounts = EmptyObject
  /\ invalidFiles = <<>>
  /\ expensesByCategory = EmptyObject
  /\ validReceipts = <<>>
  /\ inherited = InitInherited
  /\ MainIdle

Install(acc) ==
  /\ expensesByYear' = acc.expensesByYear
  /\ reimbursementsByYear' = acc.reimbursementsByYear
  /\ receiptCounts' = acc.receiptCounts
  /\ invalidFiles' = acc.invalidFiles
  /\ expensesByCategory' = acc.expensesByCategory
  /\ validReceipts' = acc.validReceipts
  /\ inherited' = acc.inherited

InLoop == pc = "loop" /\ idx < Len(fileNames)

NextName == fileNames[idx + 1]

\* if (fileName.startsWith('.')) continue
SkipHidden ==
  /\ InLoop
  /\ IsHidden(NextName)
  /\ fileName' = NextName
  /\ idx' = idx + 1
  /\ UNCHANGED <<parsed, fileNames, pc, expensesByYear, reimbursementsByYear,
                 receiptCounts, invalidFiles, expensesByCategory,
                 validReceipts, inherited>>
  /\ UNCHANGED <<mainVars, copilotVars>>

\* if (!isValid) { invalidFiles.push(...); continue }
RecordInvalid ==
  /\ InLoop
  /\ ~IsHidden(NextName)
  /\ LET r == parseFileName(NextName)
     IN /\ ~r.isValid
        /\ parsed' = <<r>>
        /\ Install(WithInvalid(Acc, NextName, r.error))
  /\ fileName' = NextName
  /\ idx' = idx + 1
  /\ UNCHANGED <<fileNames, pc>>
  /\ UNCHANGED <<mainVars, copilotVars>>

\* a valid name whose amount is not > 0: nothing is done with it
DropNonPositive ==
  /\ InLoop
  /\ ~IsHidden(NextName)
  /\ LET r == parseFileName(NextName)
     IN /\ r.isValid
        /\ ~IsPositive(r.amount)
        /\ parsed' = <<r>>
  /\ fileName' = NextName
  /\ idx' = idx + 1
  /\ UNCHANGED <<fileNames, pc, expensesByYear, reimbursementsByYear,
                 receiptCounts, invalidFiles, expensesByCategory,
                 validReceipts, inherited>>
  /\ UNCHANGED <<mainVars, copilotVars>>

\* a valid name with amount > 0: lines 176-212
AcceptReceipt ==
  /\ InLoop
  /\ ~IsHidden(NextName)
  /\ LET r == parseFileName(NextName)
     IN /\ r.isValid
        /\ IsPositive(r.amount)
        /\ parsed' = <<r>>
        /\ Install(WithReceipt(Acc, NextName, r))
  /\ fileName' = NextName
  /\ idx' = idx + 1
  /\ UNCHANGED <<fileNames, pc>>
  /\ UNCHANGED <<mainVars, copilotVars>>

\* return { expensesByYear, ... }
Return ==
  /\ pc = "loop"
  /\ idx = Len(fileNames)
  /\ pc' = "done"
  /\ UNCHANGED <<fileName, parsed, fileNames, idx, expensesByYear,
                 reimbursementsByYear, receiptCounts, invalidFiles,
                 expensesByCategory, validReceipts, inherited>>
  /\ UNCHANGED <<mainVars, copilotVars>>

Next ==
  \/ SkipHidden
  \/ RecordInvalid
  \/ DropNonPositive
  \/ AcceptReceipt
  \/ Return

Spec == Init /\ [][Next]_vars

----------------------------------------------------------------------------
(* Properties of the fold (checked under Spec)                             *)

RECURSIVE SumValues(_)
SumValues(obj) ==
  IF DOMAIN obj = {} THEN 0
  ELSE LET k == CHOOSE x \in DOMAIN obj : TRUE
       IN obj[k] + SumValues([x \in DOMAIN obj \ {k} |-> obj[x]])

RECURSIVE SumAmounts(_)
SumAmounts(receipts) ==
  IF receipts = <<>> THEN 0
  ELSE Head(receipts).amount + SumAmounts(Tail(receipts))

RECURSIVE SumExpenses(_)
SumExpenses(entries) ==
  IF entries = <<>> THEN 0
  ELSE Head(entries).expenses + SumExpenses(Tail(entries))

\* the names the loop has gone through
Processed == SubSeq(fileNames, 1, idx)

RECURSIVE Without(_, _)
Without(names, dropped) ==
  IF names = <<>> THEN <<>>
  ELSE IF Head(names) \in dropped THEN Without(Tail(names), dropped)
  ELSE <<Head(names)>> \o Without(Tail(names), dropped)

\* C6: the values of expensesByYear add up to the amounts of validReceipts.
ExpensesSumIsReceiptSum ==
  SumValues(expensesByYear) = SumAmounts(validReceipts)

\* the fold returned with receipts in two years, one of them reimbursed
TwoYearsWitness ==
  /\ pc = "done"
  /\ Cardinality(DOMAIN expensesByYear) = 2
  /\ \E i \in 1..Len(validReceipts) : validReceipts[i].isReimbursed
  /\ SumAmounts(validReceipts) > 0

\* C7 as stated: in every year the category expenses add up to the year's
\* expenses.
CategoryTotalsMatchYear ==
  \A y \in DOMAIN expensesByYear :
    SumExpenses(expensesByCategory[y]) = expensesByYear[y]

\* the step the loop takes on an accepted receipt
AcceptStep ==
  /\ InLoop
  /\ ~IsHidden(NextName)
  /\ parseFileName(NextName).isValid
  /\ parseFileName(NextName).amount > 0
  /\ idx' = idx + 1

ValueOr0(obj, key) == IF key \in DOMAIN obj THEN obj[key] ELSE 0

\* the category's own entry in a year, or an entry of zeros when it has none
EntryOr0(byCategory, year, category) ==
  IF year \in DOMAIN byCategory /\ OwnIndex(byCategory[year], category) # 0
  THEN byCategory[year][OwnIndex(byCategory[year], category)]
  ELSE [category |-> category, expenses |-> 0, reimbursements |-> 0, count |-> 0]

\* C8 as stated: an accepted receipt adds its amount to the year's and the
\* category's expenses and 1 to both counts, and when it is a reimbursement
\* the amount to both reimbursements too; no expenses total is ever lowered.
ReceiptAddsToTotals ==
  [][/\ AcceptStep =>
          LET r == parseFileName(NextName)
              c == CategoryOf(r.description)
              before == EntryOr0(expensesByCategory, r.year, c)
              after == EntryOr0(expensesByCategory', r.year, c)
              paid == IF r.isReimbursement THEN r.amount ELSE 0
          IN /\ expensesByYear'[r.year] = ValueOr0(expensesByYear, r.year) + r.amount
             /\ receiptCounts'[r.year] = ValueOr0(receiptCounts, r.year) + 1
             /\ reimbursementsByYear'[r.year] =
                  ValueOr0(reimbursementsByYear, r.year) + paid
             /\ after.expenses = before.expenses + r.amount
             /\ after.count = before.count + 1
             /\ after.reimbursements = before.reimbursements + paid
     /\ \A y \in DOMAIN expensesByYear :
          /\ y \in DOMAIN expensesByYear'
          /\ expensesByYear'[y] >= expensesByYear[y]
          /\ \A i \in 1..Len(expensesByCategory[y]) :
               EntryOr0(expensesByCategory', y, expensesByCategory[y][i].category).expenses
                 >= expensesByCategory[y][i].expenses
    ]_vars

InvalidNames == {n \in ListingPool : ~IsHidden(n) /\ ~parseFileName(n).isValid}

RECURSIVE InvalidRecords(_)
InvalidRecords(names) ==
  IF names = <<>> THEN <<>>
  ELSE IF Head(names) \in InvalidNames
       THEN <<[fileName |-> Head(names), error |-> parseFileName(Head(names)).error]>>
              \o InvalidRecords(Tail(names))
       ELSE InvalidRecords(Tail(names))

\* the step the loop takes on a name that fails parsing
InvalidStep ==
  /\ InLoop
  /\ NextName \in InvalidNames
  /\ idx' = idx + 1

\* C9: a name that fails parsing is appended to invalidFiles with its error
\* and changes nothing else, and the totals, categories and receipts are
\* those of the listing without the invalid names.
InvalidFilesOnlyLogged ==
  /\ [](/\ invalidFiles = InvalidRecords(Processed)
        /\ LET clean == getTotalsByYear(Without(Processed, InvalidNames))
           IN /\ clean.invalidFiles = <<>>
              /\ [Acc EXCEPT !.invalidFiles = <<>>] = clean)
  /\ [][InvalidStep =>
          /\ invalidFiles' =
               Append(invalidFiles,
                      [fileName |-> NextName, error |-> parseFileName(NextName).error])
          /\ UNCHANGED <<expensesByYear, reimbursementsByYear, receiptCounts,
                         expensesByCategory, validReceipts, inherited>>]_vars

\* an invalid name was logged and the receipt after it was accepted
InvalidThenReceiptWitness ==
  /\ pc = "done"
  /\ fileNames = <<CommaAmount, JoshDoctor>>
  /\ Len(invalidFiles) = 1
  /\ invalidFiles[1].fileName = CommaAmount
  /\ Len(validReceipts) = 1

HiddenNames == {n \in ListingPool : Head(n) = "."}

\* C10: names starting with '.' are in no accumulator, and the result is
\* that of the listing without them.
HiddenFilesSkipped ==
  /\ \A i \in 1..Len(invalidFiles) : Head(invalidFiles[i].fileName) # "."
  /\ Acc = getTotalsByYear(Without(Processed, HiddenNames))

\* the loop went over a hidden name between an invalid name and a receipt
HiddenSkippedWitness ==
  /\ pc = "done"
  /\ fileNames = <<MissingAmount, DsStore, JoshRx>>
  /\ Len(invalidFiles) = 1
  /\ Len(validReceipts) = 1

\* the step the loop takes on a valid name whose amount is not positive
DropStep ==
  /\ InLoop
  /\ ~IsHidden(NextName)
  /\ parseFileName(NextName).isValid
  /\ parseFileName(NextName).amount <= 0
  /\ idx' = idx + 1

\* C11: a valid name with amount 0 changes no accumulator; every year key has
\* expenses > 0 and a receipt count >= 1, and every receipt has amount > 0.
ZeroAmountDropped ==
  /\ [](/\ \A y \in DOMAIN expensesByYear :
             /\ expensesByYear[y] > 0
             /\ y \in DOMAIN receiptCounts
             /\ receiptCounts[y] \in Nat
             /\ receiptCounts[y] >= 1
        /\ \A i \in 1..Len(validReceipts) : validReceipts[i].amount > 0
        /\ \A i \in 1..Len(invalidFiles) : invalidFiles[i].fileName # ZeroAmount)
  /\ [][DropStep =>
          UNCHANGED <<expensesByYear, reimbursementsByYear, receiptCounts,
                      invalidFiles, expensesByCategory, validReceipts,
                      inherited>>]_vars

\* the loop went over the zero-amount name and then accepted a receipt
ZeroAmountWitness ==
  /\ pc = "done"
  /\ fileNames = <<ZeroAmount, JoshDoctor>>
  /\ invalidFiles = <<>>
  /\ Len(validReceipts) = 1
  /\ DOMAIN expensesByYear = {SubSeq(JoshDoctor, 1, 4)}

\* the first word of a description, cut at the first space after the leading
\* spaces, in lower case; 'uncategorized' when there is none
FirstWordLower(description) ==
  LET starts == {i \in 1..Len(description) : description[i] # " "}
  IN IF starts = {} THEN Uncategorized
     ELSE LET a == CHOOSE i \in starts : \A j \in starts : i <= j
              ends == {i \in a..Len(description) :
                         i = Len(description) \/ description[i + 1] = " "}
              b == CHOOSE i \in ends : \A j \in ends : i <= j
          IN ToLowerCase(SubSeq(description, a, b))

\* the receipts of a year whose description has the given first word
ReceiptsOf(year, word) ==
  {i \in 1..Len(validReceipts) :
     /\ validReceipts[i].year = year
     /\ FirstWordLower(validReceipts[i].description) = word}

\* C12 as stated: the category key of a receipt is the lower-cased first word
\* of its trimmed description or 'uncategorized'; the receipts of a year whose
\* first words differ only in case are aggregated under that one key, and no
\* key holds an upper-case letter.
CategoryKeyIsFirstWord ==
  /\ \A i \in 1..Len(validReceipts) :
       LET r == validReceipts[i]
           word == FirstWordLower(r.description)
           entry == EntryOr0(expensesByCategory, r.year, word)
       IN /\ r.category = word
          /\ entry.count = Cardinality(ReceiptsOf(r.year, word))
  /\ \A y \in DOMAIN expensesByCategory :
       \A i \in 1..Len(expensesByCategory[y]) :
         \A k \in 1..Len(expensesByCategory[y][i].category) :
           expensesByCategory[y][i].category[k] \notin UpperLetters

\* C13: the four per-year maps have the same keys after every step, and a
\* year without a reimbursed receipt has reimbursementsByYear 0.
YearKeysAgree ==
  /\ DOMAIN reimbursementsByYear = DOMAIN expensesByYear
  /\ DOMAIN receiptCounts = DOMAIN expensesByYear
  /\ DOMAIN expensesByCategory = DOMAIN expensesByYear
  /\ \A y \in DOMAIN expensesByYear :
       (\A i \in 1..Len(validReceipts) :
          validReceipts[i].year = y => ~validReceipts[i].isReimbursed)
       => reimbursementsByYear[y] = 0

\* a year with unreimbursed receipts only, next to a year with a reimbursed one
UnreimbursedYearWitness ==
  /\ pc = "done"
  /\ fileNames = <<JoshDoctor, ConstructorFee>>
  /\ Cardinality(DOMAIN reimbursementsByYear) = 2
  /\ reimbursementsByYear[SubSeq(JoshDoctor, 1, 4)] = 0
  /\ reimbursementsByYear[SubSeq(ConstructorFee, 1, 4)] > 0

----------------------------------------------------------------------------
(* Objects whose key order is observed                                     *)
(*                                                                         *)
(* Such an object is the sequence of its own properties, [key, value], in  *)
(* the order Object.keys and Object.entries list them: keys that are array *)
(* indices first, in ascending numeric order, then the other keys in the   *)
(* order they were created.                                                *)

\* a < b for strings of digits, code unit by code unit
RECURSIVE StringLess(_, _)
StringLess(a, b) ==
  IF b = <<>> THEN FALSE
  ELSE IF a = <<>> THEN TRUE
  ELSE IF Head(a) = Head(b) THEN StringLess(Tail(a), Tail(b))
  ELSE DigitValue(Head(a)) < DigitValue(Head(b))

\* 2^32 - 1
IndexLimit == <<"4", "2", "9", "4", "9", "6", "7", "2", "9", "5">>

\* a < b for the numbers two canonical numeric strings stand for
IndexLess(a, b) ==
  \/ Len(a) < Len(b)
  \/ Len(a) = Len(b) /\ StringLess(a, b)

\* "0", "7", "42": a canonical numeric string below 2^32 - 1
IsArrayIndex(key) ==
  /\ key # <<>>
  /\ AllIn(key, Digits)
  /\ (Len(key) = 1 \/ key[1] # "0")
  /\ IndexLess(key, IndexLimit)

\* the position of an own key, 0 when the object has no such key
KeyIndex(props, key) ==
  IF \E i \in 1..Len(props) : props[i].key = key
  THEN CHOOSE i \in 1..Len(props) : props[i].key = key
  ELSE 0

\* where a key that is created now is listed
InsertAt(props, key) ==
  IF IsArrayIndex(key)
  THEN 1 + Cardinality({i \in 1..Len(props) :
                          /\ IsArrayIndex(props[i].key)
                          /\ IndexLess(props[i].key, key)})
  ELSE Len(props) + 1

\* obj[key] = value
PutOwn(props, key, value) ==
  LET i == KeyIndex(props, key)
      p == InsertAt(props, key)
  IN IF i # 0 THEN [props EXCEPT ![i].value = value]
     ELSE SubSeq(props, 1, p - 1) \o <<[key |-> key, value |-> value]>>
          \o SubSeq(props, p, Len(props))

\* Object.entries of a year's categories, which the fold keeps in the order
\* it created them
RECURSIVE EntriesFrom(_, _)
EntriesFrom(props, created) ==
  IF created = <<>> THEN props
  ELSE EntriesFrom(PutOwn(props, Head(created).category, Head(created)),
                   Tail(created))

ObjectEntries(created) == EntriesFrom(<<>>, created)

\* obj[key] || 0 for an object of numbers
GetOr0(obj, key) == IF HasOwn(obj, key) THEN obj[key] ELSE 0

----------------------------------------------------------------------------
(* calculateSummaryStats                                                   *)

\* a bug: a year that only ties the best one replaces it
ExceedsOrTies(candidate, best) == candidate >= best

\* (expensesByYear[year] || 0) > (expensesByYear[maxYear] || 0)
Exceeds(candidate, best) == candidate > best

\* years.reduce((maxYear, year) => ... ? year : maxYear), from maxYear on
RECURSIVE ReduceMaxYear(_, _, _)
ReduceMaxYear(maxYear, rest, byYear) ==
  IF rest = <<>> THEN maxYear
  ELSE ReduceMaxYear(IF Exceeds(GetOr0(byYear, Head(rest)), GetOr0(byYear, maxYear))
                     THEN Head(rest) ELSE maxYear,
                     Tail(rest), byYear)

\* for (const year of years) total += byYear[year] || 0
RECURSIVE TotalOver(_, _)
TotalOver(yearList, byYear) ==
  IF yearList = <<>> THEN 0
  ELSE GetOr0(byYear, Head(yearList)) + TotalOver(Tail(yearList), byYear)

\* A number or a string of the returned object whose type matters: the type
\* and the text String(value) gives
NumberValue(text) == [type |-> "number", text |-> text]

StringValue(text) == [type |-> "string", text |-> text]

\* the number 0
Zero == NumberValue(<<"0">>)

NaN == <<"N", "a", "N">>

Infinity == <<"I", "n", "f", "i", "n", "i", "t", "y">>

\* a / 0 as String shows it: NaN for 0 / 0, else Infinity with the sign of a
DividedByZero(a) ==
  CASE a = 0 -> NaN
    [] a > 0 -> Infinity
    [] a < 0 -> <<"-">> \o Infinity

\* The integer nearest to a / b for a >= 0 and b > 0. When a / b lies half
\* way between two integers the digit toFixed gives depends on the double;
\* no value of the inputs below is such a quotient.
NearestInteger(a, b) ==
  CASE 2 * (a % b) < b -> a \div b
    [] 2 * (a % b) > b -> a \div b + 1

\* ((a / b) * 100).toFixed(1)
PercentToFixed1(a, b) ==
  IF b = 0 THEN DividedByZero(a)
  ELSE LET magnitude == IF a < 0 THEN 0 - a ELSE a
           tenths == NearestInteger(1000 * magnitude, b)
       IN (IF a < 0 THEN <<"-">> ELSE <<>>)
            \o ToDigits(tenths \div 10) \o <<".", DigitChar(tenths % 10)>>

\* (a / n).toFixed(2) for an amount a >= 0
QuotientToFixed2(a, n) ==
  IF n = 0 THEN DividedByZero(a)
  ELSE LET cents == NearestInteger(a, 10 * n)
       IN ToDigits(cents \div 100)
            \o <<".", DigitChar((cents % 100) \div 10), DigitChar(cents % 10)>>

\* Math.round(a / n) for a count a >= 0: halves go up
MathRound(a, n) ==
  IF n = 0 THEN DividedByZero(a)
  ELSE ToDigits((2 * a + n) \div (2 * n))

\* a bug: the quotient is taken whatever the divisor
Unguarded(condition, value) == value

\* condition ? value : 0
Guarded(condition, value) == IF condition THEN value ELSE Zero

\* The returned object. Amounts are numbers of mills and counts are numbers;
\* the percentages and averages, which are strings made by toFixed, a number
\* made by Math.round, or the number 0, are held with their type.
calculateSummaryStats(yearList, expenses, reimbursements, counts, invalid) ==
  LET totalValidFiles == SumValues(counts)
      totalInvalidFiles == Len(invalid)
      totalFiles == totalValidFiles + totalInvalidFiles
      totalExpenses == TotalOver(yearList, expenses)
      totalReimbursements == TotalOver(yearList, reimbursements)
      totalReimburseable == totalExpenses - totalReimbursements
      mostExpensiveYear ==
        IF Len(yearList) > 0
        THEN ReduceMaxYear(Head(yearList), Tail(yearList), expenses)
        ELSE Null
      mostExpensiveYearAmount ==
        IF Len(yearList) > 0 THEN GetOr0(expenses, mostExpensiveYear) ELSE 0
      mostExpensiveYearReceipts ==
        IF Len(yearList) > 0 THEN GetOr0(counts, mostExpensiveYear) ELSE 0
  IN [totalFiles |-> totalFiles,
      totalValidFiles |-> totalValidFiles,
      totalInvalidFiles |-> totalInvalidFiles,
      invalidFilePercentage |->
        Guarded(totalFiles > 0,
                StringValue(PercentToFixed1(totalInvalidFiles, totalFiles))),
      totalExpenses |-> totalExpenses,
      totalReimbursements |-> totalReimbursements,
      totalReimburseable |-> totalReimburseable,
      reimbursementRate |->
        Guarded(totalExpenses > 0,
                StringValue(PercentToFixed1(totalReimbursements, totalExpenses))),
      reimburseableRate |->
        Guarded(totalExpenses > 0,
                StringValue(PercentToFixed1(totalReimburseable, totalExpenses))),
      avgExpensePerYear |->
        Guarded(Len(yearList) > 0,
                StringValue(QuotientToFixed2(totalExpenses, Len(yearList)))),
      avgReceiptsPerYear |->
        Guarded(Len(yearList) > 0,
                NumberValue(MathRound(totalValidFiles, Len(yearList)))),
      mostExpensiveYear |-> mostExpensiveYear,
      mostExpensiveYearAmount |-> mostExpensiveYearAmount,
      mostExpensiveYearReceipts |-> mostExpensiveYearReceipts,
      expensePercentage |->
        Guarded(totalExpenses > 0,
                StringValue(PercentToFixed1(mostExpensiveYearAmount, totalExpenses))),
      receiptPercentage |->
        Guarded(totalValidFiles > 0,
                StringValue(PercentToFixed1(mostExpensiveYearReceipts, totalValidFiles)))]

----------------------------------------------------------------------------
(* buildYearlyResultObject                                                 *)

\* `$${x.toFixed(2)}`
Currency(x) == <<"$">> \o ToFixed2(x)

Total == <<"T", "o", "t", "a", "l">>

\* (a, b) => b[1].expenses - a[1].expenses
CompareExpenses(a, b) == b.value.expenses - a.value.expenses

\* Array.prototype.sort is stable: an entry goes behind every entry the
\* comparison does not put it in front of
RECURSIVE InsertSorted(_, _)
InsertSorted(sorted, entry) ==
  IF sorted = <<>> THEN <<entry>>
  ELSE IF CompareExpenses(Head(sorted), entry) <= 0
       THEN <<Head(sorted)>> \o InsertSorted(Tail(sorted), entry)
       ELSE <<entry>> \o sorted

RECURSIVE SortFrom(_, _)
SortFrom(sorted, entries) ==
  IF entries = <<>> THEN sorted
  ELSE SortFrom(InsertSorted(sorted, Head(entries)), Tail(entries))

\* Object.entries(expensesByCategory[year]).sort(...)
SortedCategories(created) == SortFrom(<<>>, ObjectEntries(created))

\* { expenses: `$...`, reimbursements: `$...`, receipts: data.count }
FormatCategory(data) ==
  [expenses |-> Currency(data.expenses),
   reimbursements |-> Currency(data.reimbursements),
   receipts |-> data.count]

\* for (const [category, data] of sortedCategories) byCategory[category] = ...
RECURSIVE ByCategoryFrom(_, _)
ByCategoryFrom(byCategory, sortedCategories) ==
  IF sortedCategories = <<>> THEN byCategory
  ELSE ByCategoryFrom(PutOwn(byCategory, Head(sortedCategories).key,
                             FormatCategory(Head(sortedCategories).value)),
                      Tail(sortedCategories))

\* a bug: the breakdown is attached under the key byPerson
AttachBreakdownByPerson(entry, byCategoryOfYear, year) ==
  IF HasOwn(byCategoryOfYear, year)
  THEN SetKey(entry, "byPerson",
              ByCategoryFrom(<<>>, SortedCategories(byCategoryOfYear[year])))
  ELSE entry

\* a bug: every year gets a breakdown, an empty one when it has no data
AttachBreakdownAlways(entry, byCategoryOfYear, year) ==
  SetKey(entry, "byCategory",
         IF HasOwn(byCategoryOfYear, year)
         THEN ByCategoryFrom(<<>>, SortedCategories(byCategoryOfYear[year]))
         ELSE <<>>)

\* if (expensesByCategory[year]) { ...; result[year].byCategory = byCategory }
\* A year's categories are an object, which is truthy even when empty.
AttachBreakdown(entry, byCategoryOfYear, year) ==
  IF HasOwn(byCategoryOfYear, year)
  THEN SetKey(entry, "byCategory",
              ByCategoryFrom(<<>>, SortedCategories(byCategoryOfYear[year])))
  ELSE entry

\* result and the three running totals before the loop
EmptyBuild ==
  [result |-> <<>>, totalExpenses |-> 0, totalReimbursements |-> 0,
   totalReceipts |-> 0]

\* a bug: the totals are assigned the year's values instead of growing by them
BuildYearTotalsAssigned(build, year, expenses, reimbursements, counts, byCategoryOfYear) ==
  LET yearExpenses == GetOr0(expenses, year)
      yearReimbursements == GetOr0(reimbursements, year)
      yearReceipts == GetOr0(counts, year)
      entry == [expenses |-> Currency(yearExpenses),
                reimbursements |-> Currency(yearReimbursements),
                receipts |-> yearReceipts]
  IN [result |-> PutOwn(build.result, year,
                        AttachBreakdown(entry, byCategoryOfYear, year)),
      totalExpenses |-> yearExpenses,
      totalReimbursements |-> yearReimbursements,
      totalReceipts |-> yearReceipts]

\* one iteration of for (const year of years)
BuildYear(build, year, expenses, reimbursements, counts, byCategoryOfYear) ==
  LET yearExpenses == GetOr0(expenses, year)
      yearReimbursements == GetOr0(reimbursements, year)
      yearReceipts == GetOr0(counts, year)
      entry == [expenses |-> Currency(yearExpenses),
                reimbursements |-> Currency(yearReimbursements),
                receipts |-> yearReceipts]
  IN [result |-> PutOwn(build.result, year,
                        AttachBreakdown(entry, byCategoryOfYear, year)),
      totalExpenses |-> build.totalExpenses + yearExpenses,
      totalReimbursements |-> build.totalReimbursements + yearReimbursements,
      totalReceipts |-> build.totalReceipts + yearReceipts]

RECURSIVE BuildYears(_, _, _, _, _, _)
BuildYears(build, yearList, expenses, reimbursements, counts, byCategoryOfYear) ==
  IF yearList = <<>> THEN build
  ELSE BuildYears(BuildYear(build, Head(yearList), expenses, reimbursements,
                            counts, byCategoryOfYear),
                  Tail(yearList), expenses, reimbursements, counts,
                  byCategoryOfYear)

\* The fifth argument is optional: rest holds it, or nothing, and the
\* parameter defaults to {}.
buildYearlyResultObject(yearList, expenses, reimbursements, counts, rest) ==
  LET byCategoryOfYear == IF Len(rest) = 0 THEN EmptyObject ELSE rest[1]
      build == BuildYears(EmptyBuild, yearList, expenses, reimbursements,
                          counts, byCategoryOfYear)
  IN PutOwn(build.result, Total,
            [expenses |-> Currency(build.totalExpenses),
             reimbursements |-> Currency(build.totalReimbursements),
             receipts |-> build.totalReceipts])

\* prepareChartData: one { label, value } per year and series
RECURSIVE ChartSeries(_, _)
ChartSeries(yearList, byYear) ==
  IF yearList = <<>> THEN <<>>
  ELSE <<[label |-> Head(yearList), value |-> GetOr0(byYear, Head(yearList))]>>
       \o ChartSeries(Tail(yearList), byYear)

prepareChartData(yearList, expenses, reimbursements) ==
  [expenseData |-> ChartSeries(yearList, expenses),
   reimbursementData |-> ChartSeries(yearList, reimbursements)]

----------------------------------------------------------------------------
(* formatReceipt                                                           *)

Bar == <<" ", "|", " ">>

Reimbursed == <<"r", "e", "i", "m", "b", "u", "r", "s", "e", "d">>

NotReimbursed == <<"n", "o", "t", " ">> \o Reimbursed

formatReceipt(receipt, includeReimbursedStatus) ==
  LET base == receipt.date \o Bar \o receipt.description \o Bar
              \o Currency(receipt.amount)
  IN IF ~includeReimbursedStatus THEN base
     ELSE base \o Bar \o (IF receipt.isReimbursed THEN Reimbursed
                          ELSE NotReimbursed)

----------------------------------------------------------------------------
(* main                                                                    *)

CannotAccess == "Cannot access directory: "

\* error.message of what fs.readdirSync throws
ReaddirErrors ==
  {<<"ENOENT: no such file or directory, scandir">>,
   <<"EACCES: permission denied, scandir">>,
   <<"ENOTDIR: not a directory, scandir">>}

\* a bug: the failure to list the directory is swallowed
ThrownByNever(dir) == <<>>

\* What getTotalsByYear(directory) throws: nothing when readdirSync lists
\* the directory, else new Error(`Cannot access directory: ${error.message}`).
\* A message is the sequence of its fragments.
ThrownBy(dir) ==
  IF dir.readable THEN <<>>
  ELSE <<[message |-> <<CannotAccess>> \o dir.error]>>

\* message.replace(fragment, '')
ReplaceFirst(message, fragment) ==
  IF \E i \in 1..Len(message) : message[i] = fragment
  THEN LET i == CHOOSE k \in 1..Len(message) :
                  /\ message[k] = fragment
                  /\ \A j \in 1..(k - 1) : message[j] # fragment
       IN SubSeq(message, 1, i - 1) \o SubSeq(message, i + 1, Len(message))
  ELSE message

\* [...keys].sort()
RECURSIVE SortedKeys(_)
SortedKeys(keys) ==
  IF keys = {} THEN <<>>
  ELSE LET least == CHOOSE k \in keys : \A o \in keys \ {k} : StringLess(k, o)
       IN <<least>> \o SortedKeys(keys \ {least})

\* [...new Set([...Object.keys(expensesByYear),
\*              ...Object.keys(reimbursementsByYear)])].sort()
MainYears(expenses, reimbursements) ==
  SortedKeys(DOMAIN expenses \cup DOMAIN reimbursements)

\* one console.error or console.log: the fixed text and what is put into it
Line(stream, text, data) == [stream |-> stream, text |-> text, data |-> data]

\* the warning about invalid files, when there are any
WarningLines(invalid) ==
  IF Len(invalid) > 0
  THEN <<Line("stdout", "WARNING: The following files do not match the expected pattern",
              invalid)>>
  ELSE <<>>

\* the table and the three charts, unless --summary-only
ReportLines(flags, yearList, expenses, reimbursements, built) ==
  IF ~flags.summaryOnly
  THEN LET chart == prepareChartData(yearList, expenses, reimbursements)
       IN <<Line("stdout", "prettyjson.render(result)", built),
            Line("stdout", "Expenses by year", chart.expenseData),
            Line("stdout", "Reimbursements by year", chart.reimbursementData),
            Line("stdout", "Expenses vs Reimbursements by year", yearList)>>
  ELSE <<>>

MaxMainFiles == 2

MainListings ==
  {names \in UNION {[1..n -> ListingPool] : n \in 0..MaxMainFiles} :
     \A i, j \in 1..Len(names) : i # j => names[i] # names[j]}

\* --dirPath names a directory that can be listed, or one that cannot
Directories ==
  {[readable |-> TRUE, names |-> names, error |-> <<>>] : names \in MainListings}
  \cup {[readable |-> FALSE, names |-> <<>>, error |-> e] : e \in ReaddirErrors}

Flags == [byCategory : BOOLEAN, summaryOnly : BOOLEAN]

InitMain ==
  /\ directory \in Directories
  /\ CopilotIdle
  /\ argv \in Flags
  /\ pc = "main"
  /\ call = <<>>
  /\ exitCode = <<>>
  /\ thrown = <<>>
  /\ printed = <<>>
  /\ years = <<>>
  /\ stats = <<>>
  /\ result = <<>>
  /\ fileName = <<>>
  /\ parsed = NoCall
  /\ fileNames = <<>>
  /\ idx = 0
  /\ expensesByYear = EmptyObject
  /\ reimbursementsByYear = EmptyObject
  /\ receiptCounts = EmptyObject
  /\ invalidFiles = <<>>
  /\ expensesByCategory = EmptyObject
  /\ validReceipts = <<>>
  /\ inherited = InitInherited

\* getTotalsByYear throws: catch, two console.error, process.exit(1)
MainCannotAccess ==
  /\ pc = "main"
  /\ ThrownBy(directory) # <<>>
  /\ thrown' = ThrownBy(directory)
  /\ printed' = <<Line("stderr", "Error: Cannot access directory", <<>>),
                  Line("stderr", "detail",
                       ReplaceFirst(ThrownBy(directory)[1].message, CannotAccess))>>
  /\ exitCode' = <<1>>
  /\ pc' = "exited"
  /\ UNCHANGED <<fileName, parsed, fileNames, idx, expensesByYear,
                 reimbursementsByYear, receiptCounts, invalidFiles,
                 expensesByCategory, validReceipts, inherited>>
  /\ UNCHANGED <<directory, argv, call, years, stats, result>>
  /\ UNCHANGED copilotVars

\* no year has a receipt: two console.log, process.exit(1)
MainNoValidFiles ==
  /\ pc = "main"
  /\ ThrownBy(directory) = <<>>
  /\ LET acc == getTotalsByYear(directory.names)
     IN /\ MainYears(acc.expensesByYear, acc.reimbursementsByYear) = <<>>
        /\ Install(acc)
  /\ fileNames' = directory.names
  /\ years' = <<>>
  /\ printed' = <<Line("stdout", "Error: No valid receipt files found in the specified directory", <<>>),
                  Line("stdout", "Expected pattern: <yyyy-mm-dd> - <description> - $<amount>.<ext>", <<>>)>>
  /\ exitCode' = <<1>>
  /\ pc' = "exited"
  /\ UNCHANGED <<fileName, parsed, idx>>
  /\ UNCHANGED <<directory, argv, call, thrown, stats, result>>
  /\ UNCHANGED copilotVars

\* the warning, the report and the summary; main returns without
\* process.exit
MainReport ==
  /\ pc = "main"
  /\ ThrownBy(directory) = <<>>
  /\ LET acc == getTotalsByYear(directory.names)
         yearList == MainYears(acc.expensesByYear, acc.reimbursementsByYear)
         built == buildYearlyResultObject(
                    yearList, acc.expensesByYear, acc.reimbursementsByYear,
                    acc.receiptCounts,
                    <<IF argv.byCategory THEN acc.expensesByCategory
                      ELSE EmptyObject>>)
         summary == calculateSummaryStats(
                      yearList, acc.expensesByYear, acc.reimbursementsByYear,
                      acc.receiptCounts, acc.invalidFiles)
     IN /\ yearList # <<>>
        /\ Install(acc)
        /\ years' = yearList
        /\ result' = <<built>>
        /\ stats' = <<summary>>
        /\ printed' = WarningLines(acc.invalidFiles)
                      \o ReportLines(argv, yearList, acc.expensesByYear,
                                     acc.reimbursementsByYear, built)
                      \o <<Line("stdout", "Summary Statistics", summary)>>
  /\ fileNames' = directory.names
  /\ pc' = "returned"
  /\ UNCHANGED <<fileName, parsed, idx>>
  /\ UNCHANGED <<directory, argv, call, thrown, exitCode>>
  /\ UNCHANGED copilotVars

NextMain ==
  \/ MainCannotAccess
  \/ MainNoValidFiles
  \/ MainReport

SpecMain == InitMain /\ [][NextMain]_vars

----------------------------------------------------------------------------
(* Specification of the report functions: one call of one exported         *)
(* function on arguments drawn from bounded sets                           *)

Year2020 == <<"2", "0", "2", "0">>

Year2021 == <<"2", "0", "2", "1">>

Year2022 == <<"2", "0", "2", "2">>

ReportYears == {Year2020, Year2021, Year2022}

MaxYears == 3

\* years: no year twice, in any order
YearLists ==
  {list \in UNION {[1..n -> ReportYears] : n \in 0..MaxYears} :
     \A i, j \in 1..Len(list) : i # j => list[i] # list[j]}

\* 50.1 and 123.456
YearAmounts == {50100, 123456}

ExpenseMaps == UNION {[S -> YearAmounts] : S \in SUBSET ReportYears}

\* none, the years with expenses, or every year reimbursed 25.00
ReimbursementMaps(expenses) ==
  {EmptyObject,
   [y \in DOMAIN expenses |-> 25000],
   [y \in ReportYears |-> 25000]}

CountOf(year) ==
  CASE year = Year2020 -> 1 [] year = Year2021 -> 2 [] year = Year2022 -> 4

CountMaps(expenses, reimbursements) ==
  {[y \in DOMAIN expenses |-> CountOf(y)],
   [y \in DOMAIN reimbursements |-> CountOf(y)]}

InvalidLists ==
  {<<>>,
   <<[fileName |-> MissingAmount, error |-> parseFileName(MissingAmount).error]>>}

Josh == <<"j", "o", "s", "h">>

Jane == <<"j", "a", "n", "e">>

Kid == <<"k", "i", "d">>

Category(name, expenses, reimbursements, count) ==
  [category |-> name, expenses |-> expenses,
   reimbursements |-> reimbursements, count |-> count]

\* jane and kid tie below josh; jane was created first
TiedCategories ==
  <<Category(Jane, 50100, 0, 1), Category(Josh, 123456, 50100, 2),
    Category(Kid, 50100, 25000, 3)>>

\* the same with kid created first
TiedCategoriesKidFirst ==
  <<Category(Kid, 50100, 25000, 3), Category(Josh, 123456, 50100, 2),
    Category(Jane, 50100, 0, 1)>>

\* amounts with a 5 in the third decimal: 0.015, 0.025, 0.125; and 99.999
SubCentCategories ==
  <<Category(Josh, 15, 25, 1), Category(Jane, 99999, 125, 2)>>

\* the first word of "2 bandages" is a category that is an array index
IndexCategories ==
  <<Category(Josh, 50100, 0, 1), Category(<<"2">>, 1000, 0, 1)>>

Breakdowns ==
  {EmptyObject,
   [y \in {Year2021} |-> TiedCategories],
   [y \in {Year2021, Year2022} |->
      IF y = Year2021 THEN TiedCategoriesKidFirst ELSE SubCentCategories],
   [y \in {Year2020, Year2021} |->
      IF y = Year2020 THEN <<>> ELSE SubCentCategories],
   [y \in {Year2021} |-> IndexCategories]}

\* 0, 0.015, 0.125, 50.1, 99.999, 100 and 123.456
ReceiptAmounts == {0, 15, 125, 50100, 99999, 100000, 123456}

ReportReceipts ==
  {[date |-> SubSeq(JoshDoctor, 1, 10), year |-> SubSeq(JoshDoctor, 1, 4),
    description |-> Josh, amount |-> amount, isReimbursed |-> isReimbursed,
    category |-> Josh] :
     amount \in ReceiptAmounts, isReimbursed \in BOOLEAN}

\* the function called and the optional arguments it is given
Call(name, rest) == [name |-> name, rest |-> rest]

ReportIdle ==
  /\ pc = "call"
  /\ CopilotIdle
  /\ fileName = <<>>
  /\ parsed = NoCall
  /\ fileNames = <<>>
  /\ idx = 0
  /\ inherited = InitInherited
  /\ expensesByCategory = EmptyObject
  /\ directory = <<>>
  /\ argv = [byCategory |-> FALSE, summaryOnly |-> FALSE]
  /\ exitCode = <<>>
  /\ thrown = <<>>
  /\ printed = <<>>
  /\ stats = <<>>
  /\ result = <<>>

ByYearArguments ==
  /\ expensesByYear \in ExpenseMaps
  /\ reimbursementsByYear \in ReimbursementMaps(expensesByYear)
  /\ receiptCounts \in CountMaps(expensesByYear, reimbursementsByYear)

InitReport ==
  /\ ReportIdle
  /\ \/ /\ call = Call("years", <<>>)
        /\ ByYearArguments
        /\ years = <<>>
        /\ invalidFiles = <<>>
        /\ validReceipts = <<>>
     \/ /\ call = Call("calculateSummaryStats", <<>>)
        /\ ByYearArguments
        /\ years \in YearLists
        /\ invalidFiles \in InvalidLists
        /\ validReceipts = <<>>
     \/ /\ call \in {Call("buildYearlyResultObject", rest) :
                       rest \in {<<>>} \cup {<<b>> : b \in Breakdowns}}
        /\ ByYearArguments
        /\ years \in YearLists
        /\ invalidFiles = <<>>
        /\ validReceipts = <<>>
     \/ /\ call \in {Call("formatReceipt", rest) :
                       rest \in {<<>>, <<TRUE>>, <<FALSE>>}}
        /\ expensesByYear = EmptyObject
        /\ reimbursementsByYear = EmptyObject
        /\ receiptCounts = EmptyObject
        /\ years = <<>>
        /\ invalidFiles = <<>>
        /\ validReceipts \in {<<receipt>> : receipt \in ReportReceipts}

reportInputs == <<fileName, parsed, fileNames, idx, expensesByYear,
                  reimbursementsByYear, receiptCounts, invalidFiles,
                  expensesByCategory, validReceipts, inherited,
                  directory, argv, exitCode, thrown>>

\* main computes years from the two maps before it calls
\* calculateSummaryStats
Years ==
  /\ pc = "call"
  /\ call.name = "years"
  /\ years' = MainYears(expensesByYear, reimbursementsByYear)
  /\ call' = Call("calculateSummaryStats", <<>>)
  /\ UNCHANGED <<pc, printed, stats, result>>
  /\ UNCHANGED reportInputs
  /\ UNCHANGED copilotVars

Summarize ==
  /\ pc = "call"
  /\ call.name = "calculateSummaryStats"
  /\ stats' = <<calculateSummaryStats(years, expensesByYear, reimbursementsByYear,
                                      receiptCounts, invalidFiles)>>
  /\ pc' = "returned"
  /\ UNCHANGED <<call, years, printed, result>>
  /\ UNCHANGED reportInputs
  /\ UNCHANGED copilotVars

Build ==
  /\ pc = "call"
  /\ call.name = "buildYearlyResultObject"
  /\ result' = <<buildYearlyResultObject(years, expensesByYear, reimbursementsByYear,
                                         receiptCounts, call.rest)>>
  /\ pc' = "returned"
  /\ UNCHANGED <<call, years, printed, stats>>
  /\ UNCHANGED reportInputs
  /\ UNCHANGED copilotVars

\* includeReimbursedStatus defaults to true
Format ==
  /\ pc = "call"
  /\ call.name = "formatReceipt"
  /\ printed' = <<Line("return", "formatReceipt",
                       formatReceipt(validReceipts[1],
                                     IF Len(call.rest) = 0 THEN TRUE
                                     ELSE call.rest[1]))>>
  /\ pc' = "returned"
  /\ UNCHANGED <<call, years, stats, result>>
  /\ UNCHANGED reportInputs
  /\ UNCHANGED copilotVars

NextReport ==
  \/ Years
  \/ Summarize
  \/ Build
  \/ Format

SpecReport == InitReport /\ [][NextReport]_vars

----------------------------------------------------------------------------
(* Properties of main (checked under SpecMain)                             *)

NoPartialResult ==
  /\ expensesByYear = EmptyObject
  /\ reimbursementsByYear = EmptyObject
  /\ receiptCounts = EmptyObject
  /\ invalidFiles = <<>>
  /\ expensesByCategory = EmptyObject
  /\ validReceipts = <<>>

\* C14: when the directory cannot be listed, getTotalsByYear throws an
\* error whose message starts with 'Cannot access directory' and none of
\* the six accumulators is returned; main prints the error on stderr and
\* exits with code 1, having built no report and no statistics. A
\* directory that can be listed throws nothing.
UnreadableDirectoryIsFatal ==
  /\ (pc # "main" /\ ~directory.readable) =>
       /\ Len(thrown) = 1
       /\ Head(thrown[1].message) = "Cannot access directory: "
       /\ NoPartialResult
       /\ pc = "exited"
       /\ exitCode = <<1>>
       /\ Len(printed) = 2
       /\ \A i \in 1..Len(printed) : printed[i].stream = "stderr"
       /\ printed[1].text = "Error: Cannot access directory"
       /\ printed[2].data = directory.error
       /\ result = <<>>
       /\ stats = <<>>
  /\ directory.readable => thrown = <<>>
  /\ pc = "returned" =>
       /\ exitCode = <<>>
       /\ Len(stats) = 1
       /\ Len(result) = 1

\* main has exited on a directory that does not exist
UnreadableDirectoryWitness ==
  /\ pc = "exited"
  /\ ~directory.readable
  /\ directory.error = <<"ENOENT: no such file or directory, scandir">>
  /\ exitCode = <<1>>
  /\ Len(printed) = 2

----------------------------------------------------------------------------
(* Properties of the report functions (checked under SpecReport)           *)

Elements(list) == {list[i] : i \in 1..Len(list)}

Returned(name) == pc = "returned" /\ call.name = name

\* the years of a list are distinct: the sum of byYear over those it holds
SumOfYears(yearList, byYear) ==
  SumValues([y \in Elements(yearList) \cap DOMAIN byYear |-> byYear[y]])

YearNumber(year) == ToNumber(year)

IsAscending(yearList) ==
  \A i, j \in 1..Len(yearList) :
    i < j => YearNumber(yearList[i]) < YearNumber(yearList[j])

\* C15: mostExpensiveYear is the first year of years whose expensesByYear
\* value (0 when it has none) is the greatest; the years main passes are
\* the keys of the two maps in ascending order, and of years in ascending
\* order it is the earliest calendar year among those tied for the
\* greatest; it is null when years is empty.
MostExpensiveYearIsFirstMaximum ==
  /\ [](Returned("calculateSummaryStats") =>
          LET best == stats[1].mostExpensiveYear
              value(y) == ValueOr0(expensesByYear, y)
          IN IF years = <<>> THEN best = Null
             ELSE /\ \E i \in 1..Len(years) :
                       /\ best = years[i]
                       /\ \A j \in 1..Len(years) : value(years[j]) <= value(years[i])
                       /\ \A j \in 1..(i - 1) : value(years[j]) < value(years[i])
                  /\ IsAscending(years) =>
                       \A y \in Elements(years) :
                         value(y) = value(best) => YearNumber(best) <= YearNumber(y))
  /\ [][(pc = "call" /\ call.name = "years") =>
          /\ IsAscending(years')
          /\ Elements(years') = DOMAIN expensesByYear \cup DOMAIN reimbursementsByYear]_vars

\* 2020 and 2021 tie above 2022, and 2022 comes first in years
TiedYearsWitness ==
  /\ Returned("calculateSummaryStats")
  /\ years = <<Year2022, Year2020, Year2021>>
  /\ DOMAIN expensesByYear = ReportYears
  /\ expensesByYear[Year2020] = expensesByYear[Year2021]
  /\ expensesByYear[Year2022] < expensesByYear[Year2020]
  /\ stats[1].mostExpensiveYear = Year2020

Lookup(props, key) == props[KeyIndex(props, key)].value

\* C16: the result always has a Total entry, whose expenses,
\* reimbursements and receipts are the sums over years of the three maps,
\* a year missing from a map counting as 0; with no years it is $0.00,
\* $0.00 and 0.
TotalRowIsSumOfYears ==
  Returned("buildYearlyResultObject") =>
    /\ KeyIndex(result[1], Total) # 0
    /\ Lookup(result[1], Total) =
         [expenses |-> Currency(SumOfYears(years, expensesByYear)),
          reimbursements |-> Currency(SumOfYears(years, reimbursementsByYear)),
          receipts |-> SumOfYears(years, receiptCounts)]
    /\ years = <<>> =>
         Lookup(result[1], Total) =
           [expenses |-> <<"$", "0", ".", "0", "0">>,
            reimbursements |-> <<"$", "0", ".", "0", "0">>,
            receipts |-> 0]

\* three years, one of them missing from expensesByYear and from
\* receiptCounts, and a Total that adds up the other two
TotalRowWitness ==
  /\ Returned("buildYearlyResultObject")
  /\ Len(years) = 3
  /\ Cardinality(DOMAIN expensesByYear) = 2
  /\ Cardinality(DOMAIN receiptCounts) = 2
  /\ DOMAIN reimbursementsByYear = ReportYears
  /\ Lookup(result[1], Total).receipts = SumValues(receiptCounts)
  /\ Lookup(result[1], Total).expenses = Currency(SumValues(expensesByYear))

\* the breakdown the call was given: none when the argument is omitted
Supplied == IF Len(call.rest) = 0 THEN EmptyObject ELSE call.rest[1]

\* what the breakdown of a year holds for a category
RawCategory(year, category) ==
  Supplied[year][OwnIndex(Supplied[year], category)]

\* the entry of a category is the formatted one the claim describes
IsFormattedBreakdown(byCategory, year) ==
  /\ {byCategory[i].key : i \in 1..Len(byCategory)}
       = {Supplied[year][i].category : i \in 1..Len(Supplied[year])}
  /\ Len(byCategory) = Len(Supplied[year])
  /\ \A i \in 1..Len(byCategory) :
       byCategory[i].value =
         [expenses |-> Currency(RawCategory(year, byCategory[i].key).expenses),
          reimbursements |-> Currency(RawCategory(year, byCategory[i].key).reimbursements),
          receipts |-> RawCategory(year, byCategory[i].key).count]

Attached ==
  {<<y, Lookup(result[1], y)["byCategory"]>> :
     y \in {x \in Elements(years) : "byCategory" \in DOMAIN Lookup(result[1], x)}}

\* C18 as stated: in every attached breakdown the entries are listed in
\* non-increasing order of their raw expenses, and entries with equal
\* expenses in the order their categories were created in the input.
BreakdownDescendingStable ==
  Returned("buildYearlyResultObject") =>
    \A a \in Attached :
      \A i, j \in 1..Len(a[2]) :
        i < j =>
          LET first == RawCategory(a[1], a[2][i].key)
              second == RawCategory(a[1], a[2][j].key)
          IN /\ first.expenses >= second.expenses
             /\ first.expenses = second.expenses =>
                  OwnIndex(Supplied[a[1]], first.category)
                    < OwnIndex(Supplied[a[1]], second.category)

YearKeys == {"expenses", "reimbursements", "receipts"}

\* C19: an entry of the result has a breakdown key exactly when it is a
\* year of years for which the breakdown argument holds data; the Total
\* entry has none, and with an empty or omitted argument no entry has one.
BreakdownKeyOnlyWithData ==
  Returned("buildYearlyResultObject") =>
    /\ \A i \in 1..Len(result[1]) :
         /\ YearKeys \subseteq DOMAIN result[1][i].value
         /\ DOMAIN result[1][i].value \subseteq YearKeys \cup {"byCategory"}
         /\ "byCategory" \in DOMAIN result[1][i].value
              <=> /\ result[1][i].key \in Elements(years)
                  /\ result[1][i].key \in DOMAIN Supplied
    /\ DOMAIN Lookup(result[1], Total) = YearKeys
    /\ DOMAIN Supplied = {} =>
         \A i \in 1..Len(result[1]) : DOMAIN result[1][i].value = YearKeys

\* 2021 has data and a breakdown, 2022 is in years and has neither, and
\* 2020 has data but is not in years
BreakdownKeyWitness ==
  /\ Returned("buildYearlyResultObject")
  /\ years = <<Year2022, Year2021>>
  /\ DOMAIN Supplied = {Year2020, Year2021}
  /\ "byCategory" \in DOMAIN Lookup(result[1], Year2021)
  /\ Len(Lookup(result[1], Year2021)["byCategory"]) = 2
  /\ DOMAIN Lookup(result[1], Year2022) = YearKeys

\* the line formatReceipt returned, without the date and the description
\* in front of the amount and without the status behind it
ReceiptCurrency ==
  LET receipt == validReceipts[1]
      line == printed[1].data
      status == IF Len(call.rest) = 1 /\ ~call.rest[1] THEN 0
                ELSE IF receipt.isReimbursed THEN 3 + 10 ELSE 3 + 14
  IN SubSeq(line, Len(receipt.date) + 3 + Len(receipt.description) + 3 + 1,
            Len(line) - status)

\* every currency string of the state, with the amount it stands for
CurrencyPairs ==
  IF Returned("formatReceipt")
  THEN {<<ReceiptCurrency, validReceipts[1].amount>>}
  ELSE IF Returned("buildYearlyResultObject")
  THEN UNION {{<<Lookup(result[1], y).expenses, ValueOr0(expensesByYear, y)>>,
               <<Lookup(result[1], y).reimbursements, ValueOr0(reimbursementsByYear, y)>>} :
                y \in Elements(years)}
       \cup {<<Lookup(result[1], Total).expenses, SumOfYears(years, expensesByYear)>>,
             <<Lookup(result[1], Total).reimbursements,
               SumOfYears(years, reimbursementsByYear)>>}
       \cup UNION {UNION {{<<a[2][i].value.expenses,
                             RawCategory(a[1], a[2][i].key).expenses>>,
                           <<a[2][i].value.reimbursements,
                             RawCategory(a[1], a[2][i].key).reimbursements>>} :
                            i \in 1..Len(a[2])} :
                     a \in Attached}
  ELSE {}

\* '$', digits, a point and two digits
IsCurrency(str) ==
  /\ Len(str) >= 5
  /\ str[1] = "$"
  /\ str[Len(str) - 2] = "."
  /\ AllIn(SubSeq(str, 2, Len(str) - 3), Digits)
  /\ AllIn(SubSeq(str, Len(str) - 1, Len(str)), Digits)
  /\ (Len(str) = 5 \/ str[2] # "0")

\* the number of cents a currency string shows
CentsOf(str) ==
  100 * ToNumber(SubSeq(str, 2, Len(str) - 3))
  + ToNumber(SubSeq(str, Len(str) - 1, Len(str)))

----------------------------------------------------------------------------
(* The running sums and the receipts of getTotalsByYear                    *)

\* the receipts accepted so far of a year
ReceiptsOfYear(y) == SelectSeq(validReceipts, LAMBDA r : r.year = y)

\* those of one category
ReceiptsOfCategory(y, c) == SelectSeq(ReceiptsOfYear(y), LAMBDA r : r.category = c)

\* the reimbursed ones of a list of receipts
ReimbursedOf(receipts) == SelectSeq(receipts, LAMBDA r : r.isReimbursed)

\* C24: after every processed entry each value of expensesByYear and
\* reimbursementsByYear and each category's expenses and reimbursements is a
\* whole number of cents, the exact sum of the amounts added to it so far.
RunningSumsAreCentSums ==
  /\ \A y \in DOMAIN expensesByYear :
       /\ expensesByYear[y] % 10 = 0
       /\ expensesByYear[y] = SumAmounts(ReceiptsOfYear(y))
  /\ \A y \in DOMAIN reimbursementsByYear :
       /\ reimbursementsByYear[y] % 10 = 0
       /\ reimbursementsByYear[y] = SumAmounts(ReimbursedOf(ReceiptsOfYear(y)))
  /\ \A y \in DOMAIN expensesByCategory :
       \A i \in 1..Len(expensesByCategory[y]) :
         LET e == expensesByCategory[y][i]
         IN /\ e.expenses % 10 = 0
            /\ e.reimbursements % 10 = 0
            /\ e.expenses = SumAmounts(ReceiptsOfCategory(y, e.category))
            /\ e.reimbursements =
                 SumAmounts(ReimbursedOf(ReceiptsOfCategory(y, e.category)))

\* two receipts of one year whose amounts add up to a double that is not the
\* double of their decimal sum
InexactSumWitness ==
  /\ Len(validReceipts) = 2
  /\ validReceipts[1].year = validReceipts[2].year
  /\ <<validReceipts[1].amount, validReceipts[2].amount>> \in SumsAbove
  /\ expensesByYear[validReceipts[1].year] =
       validReceipts[1].amount + validReceipts[2].amount

\* the names of the pool that lead to no receipt: hidden, invalid, or valid
\* with the amount 0
NoReceiptNames ==
  {n \in ListingPool :
     \/ Head(n) = "."
     \/ ~parseFileName(n).isValid
     \/ parseFileName(n).amount = 0}

\* the text of a name before its first ' - '
BeforeSeparator(name) ==
  LET at == {i \in 1..(Len(name) - 2) : SubSeq(name, i, i + 2) = <<" ", "-", " ">>}
      first == CHOOSE i \in at : \A j \in at : i <= j
  IN SubSeq(name, 1, first - 1)

\* C25: validReceipts is the processed part of the listing without its
\* hidden, invalid and zero-amount entries, in listing order; the date of a
\* receipt is the first ' - ' segment of its file name and its year the first
\* four characters of that date.
ValidReceiptsFollowListing ==
  LET kept == Without(Processed, NoReceiptNames)
  IN /\ Len(validReceipts) = Len(kept)
     /\ \A i \in 1..Len(kept) :
          LET r == validReceipts[i]
              p == parseFileName(kept[i])
          IN /\ r.date = BeforeSeparator(kept[i])
             /\ r.year = SubSeq(r.date, 1, 4)
             /\ r.description = p.description
             /\ r.amount = p.amount
             /\ r.isReimbursed = p.isReimbursement

\* a listing of a receipt, an entry that leads to none, and another receipt
ReceiptsAroundDroppedWitness ==
  /\ pc = "done"
  /\ Len(fileNames) = 3
  /\ fileNames[2] \in NoReceiptNames
  /\ Len(validReceipts) = 2
  /\ validReceipts[1] # validReceipts[2]

\* C27: the reimbursements of every year and of every category of every
\* year are at most its expenses, so the total still reimburseable is never
\* negative.
ReimbursementsWithinExpenses ==
  /\ \A y \in DOMAIN expensesByYear :
       reimbursementsByYear[y] <= expensesByYear[y]
  /\ \A y \in DOMAIN expensesByCategory :
       \A i \in 1..Len(expensesByCategory[y]) :
         expensesByCategory[y][i].reimbursements <= expensesByCategory[y][i].expenses
  /\ calculateSummaryStats(MainYears(expensesByYear, reimbursementsByYear),
                           expensesByYear, reimbursementsByYear, receiptCounts,
                           invalidFiles).totalReimburseable >= 0

\* a year and a category of it that are reimbursed in part
PartlyReimbursedWitness ==
  \E y \in DOMAIN expensesByYear :
    /\ 0 < reimbursementsByYear[y]
    /\ reimbursementsByYear[y] < expensesByYear[y]
    /\ \E i \in 1..Len(expensesByCategory[y]) :
         /\ 0 < expensesByCategory[y][i].reimbursements
         /\ expensesByCategory[y][i].reimbursements < expensesByCategory[y][i].expenses

\* the positions of the processed part of the listing that hold a name of a set
PositionsOf(names) == {i \in 1..idx : fileNames[i] \in names}

\* the valid names of the pool with the amount 0
ZeroNames ==
  {n \in ListingPool :
     Head(n) # "." /\ parseFileName(n).isValid /\ parseFileName(n).amount = 0}

RECURSIVE SumCounts(_)
SumCounts(entries) ==
  IF entries = <<>> THEN 0
  ELSE Head(entries).count + SumCounts(Tail(entries))

\* C28 as stated: every processed entry is hidden, invalid, zero-amount or a
\* receipt, and is one of these only; invalidFiles has one record per invalid
\* entry; the values of receiptCounts add up to the length of validReceipts;
\* receiptCounts[y] is the sum of the category counts of year y; and
\* totalFiles of calculateSummaryStats is the number of entries less the
\* hidden and the zero-amount ones.
EntriesFallIntoFourClasses ==
  LET hidden == Cardinality(PositionsOf(HiddenNames))
      invalid == Cardinality(PositionsOf(InvalidNames))
      zero == Cardinality(PositionsOf(ZeroNames))
      summary == calculateSummaryStats(MainYears(expensesByYear, reimbursementsByYear),
                                     expensesByYear, reimbursementsByYear,
                                     receiptCounts, invalidFiles)
  IN /\ HiddenNames \cap InvalidNames = {}
     /\ HiddenNames \cap ZeroNames = {}
     /\ InvalidNames \cap ZeroNames = {}
     /\ idx = hidden + invalid + zero + Len(validReceipts)
     /\ Len(invalidFiles) = invalid
     /\ SumValues(receiptCounts) = Len(validReceipts)
     /\ \A y \in DOMAIN receiptCounts :
          receiptCounts[y] = SumCounts(expensesByCategory[y])
     /\ summary.totalFiles = idx - hidden - zero

\* one sequence of the elements of a set, the same for every listing of them
RECURSIVE InSomeOrder(_)
InSomeOrder(names) ==
  IF names = {} THEN <<>>
  ELSE LET n == CHOOSE x \in names : TRUE
       IN <<n>> \o InSomeOrder(names \ {n})

\* the file names of the records of invalidFiles
InvalidFileNames(records) == {records[i].fileName : i \in 1..Len(records)}

\* C29: the totals do not depend on the order of the listing. What
\* getTotalsByYear returns for a listing has the same expensesByYear,
\* reimbursementsByYear and receiptCounts, the same categories with the same
\* expenses, reimbursements and counts, and the same set of invalid file
\* names as what it returns for one fixed order of the same names; so any two
\* orders of the same names agree.
TotalsIndependentOfOrder ==
  pc = "done" =>
    LET other == getTotalsByYear(InSomeOrder(Elements(fileNames)))
    IN /\ expensesByYear = other.expensesByYear
       /\ reimbursementsByYear = other.reimbursementsByYear
       /\ receiptCounts = other.receiptCounts
       /\ DOMAIN expensesByCategory = DOMAIN other.expensesByCategory
       /\ \A y \in DOMAIN expensesByCategory :
            Elements(expensesByCategory[y]) = Elements(other.expensesByCategory[y])
       /\ InvalidFileNames(invalidFiles) = InvalidFileNames(other.invalidFiles)

\* a listing in another order than the fixed one, with two receipts of one
\* year and one category and an invalid name
ReorderedListingWitness ==
  /\ pc = "done"
  /\ fileNames # InSomeOrder(Elements(fileNames))
  /\ Len(validReceipts) = 2
  /\ validReceipts[1].year = validReceipts[2].year
  /\ validReceipts[1].category = validReceipts[2].category
  /\ validReceipts[1].amount # validReceipts[2].amount
  /\ Len(invalidFiles) = 1

----------------------------------------------------------------------------
(* The quotients of calculateSummaryStats                                  *)

\* the percentages and averages of a returned summary
Quotients(summary) ==
  {summary.invalidFilePercentage, summary.avgExpensePerYear,
   summary.avgReceiptsPerYear, summary.reimbursementRate,
   summary.reimburseableRate, summary.expensePercentage,
   summary.receiptPercentage}

\* C26: calculateSummaryStats never divides by zero. invalidFilePercentage
\* is the number 0 when totalFiles is 0, avgExpensePerYear and
\* avgReceiptsPerYear are 0 when years is empty, reimbursementRate,
\* reimburseableRate and expensePercentage are 0 when totalExpenses is 0, and
\* receiptPercentage is 0 when there are no valid files; no percentage or
\* average is NaN or infinite.
QuotientsAreGuarded ==
  Returned("calculateSummaryStats") =>
    LET summary == stats[1]
    IN /\ summary.totalFiles = 0 => summary.invalidFilePercentage = Zero
       /\ years = <<>> => /\ summary.avgExpensePerYear = Zero
                          /\ summary.avgReceiptsPerYear = Zero
       /\ summary.totalExpenses = 0 => /\ summary.reimbursementRate = Zero
                                       /\ summary.reimburseableRate = Zero
                                       /\ summary.expensePercentage = Zero
       /\ summary.totalValidFiles = 0 => summary.receiptPercentage = Zero
       /\ \A q \in Quotients(summary) :
            q.text \notin {NaN, Infinity, <<"-">> \o Infinity}

\* a summary of no files and no years
NothingToDivideByWitness ==
  /\ Returned("calculateSummaryStats")
  /\ years = <<>>
  /\ stats[1].totalFiles = 0
  /\ stats[1].totalExpenses = 0
  /\ stats[1].totalValidFiles = 0

----------------------------------------------------------------------------
(* createExpenseTools: the six handlers                                    *)

\* An array of receipts, and whether it is the array validReceipts itself
\* or an array made by the handler. sort reorders the array it is called on.
Array(items, shared) == [items |-> items, shared |-> shared]

\* validReceipts
Same(receipts) == Array(receipts, TRUE)

\* a bug: let receipts = validReceipts
SpreadAliased(receipts) == Array(receipts, TRUE)

\* [...validReceipts]
Spread(receipts) == Array(receipts, FALSE)

\* array.filter(test): a new array of the items that pass the test
Filter(passed) == Array(passed, FALSE)

\* where the stable sort by (a, b) => b.amount - a.amount puts a receipt
RECURSIVE InsertByAmount(_, _)
InsertByAmount(sorted, receipt) ==
  IF sorted = <<>> THEN <<receipt>>
  ELSE IF receipt.amount - Head(sorted).amount <= 0
       THEN <<Head(sorted)>> \o InsertByAmount(Tail(sorted), receipt)
       ELSE <<receipt>> \o sorted

RECURSIVE SortByAmountFrom(_, _)
SortByAmountFrom(sorted, items) ==
  IF items = <<>> THEN sorted
  ELSE SortByAmountFrom(InsertByAmount(sorted, Head(items)), Tail(items))

\* array.sort((a, b) => b.amount - a.amount): the same array, reordered
SortByAmount(array) == Array(SortByAmountFrom(<<>>, array.items), array.shared)

\* validReceipts after a handler that sorted the given array
AfterSort(receipts, array) == IF array.shared THEN array.items ELSE receipts

\* items.slice(0, end) for an integer end
Slice(items, end) ==
  LET len == Len(items)
      to == IF end < 0 THEN (IF len + end < 0 THEN 0 ELSE len + end)
            ELSE IF end > len THEN len ELSE end
  IN SubSeq(items, 1, to)

\* lines.join(sep)
RECURSIVE Join(_, _)
Join(lines, sep) ==
  IF lines = <<>> THEN <<>>
  ELSE IF Len(lines) = 1 THEN Head(lines)
  ELSE Head(lines) \o sep \o Join(Tail(lines), sep)

NewLine == <<"\n">>

formatReceiptList(receipts, includeReimbursedStatus) ==
  Join([i \in 1..Len(receipts) |->
          formatReceipt(receipts[i], includeReimbursedStatus)], NewLine)

\* sorted.reduce((sum, r) => sum + r.amount, 0)
RECURSIVE ReduceAmounts(_, _)
ReduceAmounts(sum, receipts) ==
  IF receipts = <<>> THEN sum
  ELSE ReduceAmounts(FloatSum(sum, Head(receipts).amount), Tail(receipts))

\* An optional argument is <<>> when it is left out and <<value>> when it is
\* given. if (year) holds for a year that is given and is not ''.
Truthy(argument) == argument # <<>> /\ argument[1] # <<>>

\* what a handler returns and what it leaves behind
Answer(text, receipts, inheritedObjects) ==
  [text |-> text, validReceipts |-> receipts, inherited |-> inheritedObjects]

search_receipts(receipts, inheritedObjects, keyword) ==
  LET results ==
        Filter(SelectSeq(Same(receipts).items,
                         LAMBDA r : Includes(ToLowerCase(r.description),
                                             ToLowerCase(keyword))))
  IN Answer(IF Len(results.items) = 0
            THEN <<"No receipts found matching \"">> \o keyword \o <<"\".">>
            ELSE formatReceiptList(results.items, TRUE),
            receipts, inheritedObjects)

\* the default of count
DefaultCount == 10

get_largest_expenses(receipts, inheritedObjects, count, year) ==
  LET spread == Spread(receipts)
      ofYear == IF Truthy(year)
                THEN Filter(SelectSeq(spread.items, LAMBDA r : r.year = year[1]))
                ELSE spread
      whole == SortByAmount(ofYear)
      sorted == Slice(whole.items, IF count = <<>> THEN DefaultCount ELSE count[1])
  IN Answer(IF Len(sorted) = 0
            THEN IF Truthy(year)
                 THEN <<"No receipts found for year ">> \o year[1] \o <<".">>
                 ELSE <<"No receipts found.">>
            ELSE formatReceiptList(sorted, TRUE),
            AfterSort(receipts, whole), inheritedObjects)

\* a bug: the reimbursed receipts are listed too
KeepAll(receipt) == TRUE

\* !r.isReimbursed
NotYetReimbursed(receipt) == ~receipt.isReimbursed

get_unreimbursed_expenses(receipts, inheritedObjects, year, minAmount) ==
  LET least == IF minAmount = <<>> THEN 0 ELSE minAmount[1]
      open == Filter(SelectSeq(Same(receipts).items,
                               LAMBDA r : NotYetReimbursed(r) /\ r.amount >= least))
      ofYear == IF Truthy(year)
                THEN Filter(SelectSeq(open.items, LAMBDA r : r.year = year[1]))
                ELSE open
      sorted == SortByAmount(ofYear)
      total == ReduceAmounts(0, sorted.items)
  IN Answer(IF Len(sorted.items) = 0
            THEN <<"No unreimbursed expenses found matching criteria.">>
            ELSE formatReceiptList(sorted.items, FALSE)
                   \o NewLine \o NewLine \o <<"Total unreimbursed: ">>
                   \o Currency(total) \o <<" (">> \o ToDigits(Len(sorted.items))
                   \o <<" receipts)">>,
            AfterSort(receipts, sorted), inheritedObjects)

\* one line per category of the year, in the order of the sorted entries
CategoryLines(sortedCats) ==
  [i \in 1..Len(sortedCats) |->
     <<"- ">> \o sortedCats[i].key \o <<": ">>
       \o Currency(sortedCats[i].value.expenses)
       \o <<" (">> \o ToDigits(sortedCats[i].value.count) \o <<" receipts, ">>
       \o Currency(sortedCats[i].value.reimbursements) \o <<" reimbursed)">>
       \o NewLine]

\* for a year that names no inherited property
get_expenses_by_year(receipts, inheritedObjects, expenses, reimbursements, byCategory, year) ==
  IF ~HasOwn(expenses, year) \/ expenses[year] = 0
  THEN Answer(<<"No expense data found for year ">> \o year \o <<".">>,
              receipts, inheritedObjects)
  ELSE LET reimbursed == GetOr0(reimbursements, year)
           head == <<"## ">> \o year \o <<" Expenses">> \o NewLine
                     \o <<"- Total Expenses: ">> \o Currency(expenses[year])
                     \o NewLine
                     \o <<"- Reimbursed: ">> \o Currency(reimbursed) \o NewLine
                     \o <<"- Unreimbursed: ">>
                     \o Currency(expenses[year] - reimbursed) \o NewLine
       IN Answer(IF HasOwn(byCategory, year)
                 THEN head \o NewLine \o <<"### By Category:">> \o NewLine
                        \o Join(CategoryLines(SortedCategories(byCategory[year])),
                                <<>>)
                 ELSE head,
                 receipts, inheritedObjects)

get_receipts_by_category(receipts, inheritedObjects, category, year) ==
  LET ofCategory ==
        Filter(SelectSeq(Same(receipts).items,
                         LAMBDA r : ToLowerCase(r.category) = ToLowerCase(category)))
      ofYear == IF Truthy(year)
                THEN Filter(SelectSeq(ofCategory.items, LAMBDA r : r.year = year[1]))
                ELSE ofCategory
      sorted == SortByAmount(ofYear)
      total == ReduceAmounts(0, sorted.items)
  IN IF Len(ofYear.items) = 0
     THEN Answer(<<"No receipts found for category \"">> \o category \o <<"\"">>
                   \o (IF Truthy(year) THEN <<" in ">> \o year[1] ELSE <<>>)
                   \o <<".">>,
                 receipts, inheritedObjects)
     ELSE Answer(formatReceiptList(sorted.items, TRUE)
                   \o NewLine \o NewLine \o <<"Total for ">> \o category
                   \o <<": ">> \o Currency(total) \o <<" (">>
                   \o ToDigits(Len(sorted.items)) \o <<" receipts)">>,
                 AfterSort(receipts, sorted), inheritedObjects)

\* The loop of list_categories over validReceipts. categoryTotals is a new
\* object and inherits what every object inherits: for a category that
\* names an inherited object the sum and the count go to that object, as in
\* getTotalsByYear.
RECURSIVE CategoryTotals(_, _)
CategoryTotals(totals, receipts) ==
  IF receipts = <<>> THEN totals
  ELSE LET r == Head(receipts)
           i == KeyIndex(totals.own, r.category)
           next ==
             CASE i # 0 ->
                    [totals EXCEPT
                       !.own[i].value.expenses = FloatSum(@, r.amount),
                       !.own[i].value.count = @ + 1]
               [] i = 0 /\ r.category \in InheritedKeys ->
                    [totals EXCEPT
                       !.inherited[r.category].expenses = "NaN",
                       !.inherited[r.category].count = "NaN"]
               [] OTHER ->
                    [totals EXCEPT
                       !.own = PutOwn(@, r.category,
                                      [expenses |-> r.amount, count |-> 1])]
       IN CategoryTotals(next, Tail(receipts))

list_categories(receipts, inheritedObjects) ==
  LET totals == CategoryTotals([own |-> <<>>, inherited |-> inheritedObjects],
                               receipts)
      sorted == SortFrom(<<>>, totals.own)
  IN Answer(Join([i \in 1..Len(sorted) |->
                    sorted[i].key \o <<": ">>
                      \o Currency(sorted[i].value.expenses) \o <<" (">>
                      \o ToDigits(sorted[i].value.count) \o <<" receipts)">>],
                 NewLine),
            receipts, totals.inherited)

----------------------------------------------------------------------------
(* Specification of the tools: the handlers called again and again on the  *)
(* four objects getTotalsByYear returned for a listing                      *)

MaxToolFiles == 3

\* names that lead to a receipt
ToolPool ==
  {JoshDoctor, JoshRx, JaneGlasses, NoDescription, ConstructorFee, ProtoVisit}

ToolListings ==
  {list \in UNION {[1..n -> ToolPool] : n \in 0..MaxToolFiles} :
     \A i, j \in 1..Len(list) : i # j => list[i] # list[j]}

Keywords == {Josh, <<"R", "X">>, <<"d", "e", "n", "t", "a", "l">>}

\* count: left out, or a number the schema z.number() lets through
CountArguments == {<<>>, <<0>>, <<1>>, <<2>>, <<0 - 1>>}

\* year: left out, '', or four digits
YearArguments == {<<>>, <<<<>>>>, <<Year2020>>, <<Year2021>>, <<Year2022>>}

\* minAmount: left out, 1.00 or 50.00
MinAmountArguments == {<<>>, <<1000>>, <<50000>>}

CategoryArguments ==
  {Josh, <<"J", "a", "n", "e">>, <<"c", "o", "n", "s", "t", "r", "u", "c", "t", "o", "r">>}

InitTools ==
  /\ fileNames \in ToolListings
  /\ LET acc == getTotalsByYear(fileNames)
     IN /\ expensesByYear = acc.expensesByYear
        /\ reimbursementsByYear = acc.reimbursementsByYear
        /\ receiptCounts = acc.receiptCounts
        /\ invalidFiles = acc.invalidFiles
        /\ expensesByCategory = acc.expensesByCategory
        /\ validReceipts = acc.validReceipts
        /\ inherited = acc.inherited
  /\ idx = Len(fileNames)
  /\ pc = "tools"
  /\ fileName = <<>>
  /\ parsed = NoCall
  /\ MainIdle

\* the handler has returned: its text, and the objects as it left them
Answered(name, arguments, answer) ==
  /\ pc \in {"tools", "answered"}
  /\ pc' = "answered"
  /\ call' = Call(name, arguments)
  /\ result' = answer.text
  /\ validReceipts' = answer.validReceipts
  /\ inherited' = answer.inherited
  /\ UNCHANGED <<fileName, parsed, fileNames, idx, expensesByYear,
                 reimbursementsByYear, receiptCounts, invalidFiles,
                 expensesByCategory, directory, argv, exitCode, thrown,
                 printed, years, stats>>
  /\ UNCHANGED copilotVars

SearchReceipts ==
  \E keyword \in Keywords :
    Answered("search_receipts", [keyword |-> keyword],
             search_receipts(validReceipts, inherited, keyword))

GetLargestExpenses ==
  \E count \in CountArguments, year \in YearArguments :
    Answered("get_largest_expenses", [count |-> count, year |-> year],
             get_largest_expenses(validReceipts, inherited, count, year))

GetUnreimbursedExpenses ==
  \E year \in YearArguments, minAmount \in MinAmountArguments :
    Answered("get_unreimbursed_expenses", [year |-> year, minAmount |-> minAmount],
             get_unreimbursed_expenses(validReceipts, inherited, year, minAmount))

GetExpensesByYear ==
  \E year \in {<<>>, Year2020, Year2021, Year2022} :
    Answered("get_expenses_by_year", [year |-> year],
             get_expenses_by_year(validReceipts, inherited, expensesByYear,
                                  reimbursementsByYear, expensesByCategory, year))

GetReceiptsByCategory ==
  \E category \in CategoryArguments, year \in YearArguments :
    Answered("get_receipts_by_category", [category |-> category, year |-> year],
             get_receipts_by_category(validReceipts, inherited, category, year))

ListCategories ==
  Answered("list_categories", [none |-> <<>>],
           list_categories(validReceipts, inherited))

NextTools ==
  \/ SearchReceipts
  \/ GetLargestExpenses
  \/ GetUnreimbursedExpenses
  \/ GetExpensesByYear
  \/ GetReceiptsByCategory
  \/ ListCategories

SpecTools == InitTools /\ [][NextTools]_vars

----------------------------------------------------------------------------
(* Properties of the tools                                                 *)

\* what the handler of a call answers on the objects of an accumulator
AnswerOn(acc, made) ==
  CASE made.name = "search_receipts" ->
         search_receipts(acc.validReceipts, acc.inherited, made.rest.keyword)
    [] made.name = "get_largest_expenses" ->
         get_largest_expenses(acc.validReceipts, acc.inherited,
                              made.rest.count, made.rest.year)
    [] made.name = "get_unreimbursed_expenses" ->
         get_unreimbursed_expenses(acc.validReceipts, acc.inherited,
                                   made.rest.year, made.rest.minAmount)
    [] made.name = "get_expenses_by_year" ->
         get_expenses_by_year(acc.validReceipts, acc.inherited, acc.expensesByYear,
                              acc.reimbursementsByYear, acc.expensesByCategory,
                              made.rest.year)
    [] made.name = "get_receipts_by_category" ->
         get_receipts_by_category(acc.validReceipts, acc.inherited,
                                  made.rest.category, made.rest.year)
    [] made.name = "list_categories" ->
         list_categories(acc.validReceipts, acc.inherited)

\* C21: the handlers are read-only. After any sequence of invocations
\* validReceipts, with its elements in their order, expensesByYear,
\* reimbursementsByYear and expensesByCategory are what getTotalsByYear
\* returned, and the last invocation has answered what it would have
\* answered as the first one.
ToolsAreReadOnly ==
  LET first == getTotalsByYear(fileNames)
  IN /\ validReceipts = first.validReceipts
     /\ expensesByYear = first.expensesByYear
     /\ reimbursementsByYear = first.reimbursementsByYear
     /\ expensesByCategory = first.expensesByCategory
     /\ pc = "answered" => result = AnswerOn(first, call).text

\* get_largest_expenses has listed the receipts in another order than they
\* have in validReceipts
SortedCopyWitness ==
  /\ pc = "answered"
  /\ call.name = "get_largest_expenses"
  /\ call.rest.count = <<>>
  /\ call.rest.year = <<>>
  /\ Len(validReceipts) = 3
  /\ result # formatReceiptList(validReceipts, TRUE)
  /\ result = formatReceiptList(SortByAmountFrom(<<>>, validReceipts), TRUE)

\* the sequences of n different positions of a sequence
Picks(items, n) ==
  {pick \in [1..n -> 1..Len(items)] : \A i, j \in 1..n : i # j => pick[i] # pick[j]}

\* the items at the picked positions
Picked(items, pick) == [i \in 1..Len(pick) |-> items[pick[i]]]

NonIncreasing(receipts) ==
  \A i \in 1..(Len(receipts) - 1) : receipts[i].amount >= receipts[i + 1].amount

Least(a, b) == IF a < b THEN a ELSE b

\* C22 as stated: get_largest_expenses returns receipts in non-increasing
\* order of amount, of the given year when a year is given, at most count of
\* them (10 when count is left out), namely the count largest; it returns a
\* 'No receipts found' message only when no receipt matches the year filter.
LargestExpensesAreTheCountLargest ==
  (pc = "answered" /\ call.name = "get_largest_expenses") =>
    LET count == IF call.rest.count = <<>> THEN 10 ELSE call.rest.count[1]
        year == call.rest.year
        matching == IF year = <<>> THEN validReceipts
                    ELSE SelectSeq(validReceipts, LAMBDA r : r.year = year[1])
        n == Least(IF count < 0 THEN 0 ELSE count, Len(matching))
    IN IF matching = <<>>
       THEN /\ result # <<>>
            /\ result[1] \in {"No receipts found.", "No receipts found for year "}
       ELSE \E pick \in Picks(matching, n) :
              /\ result = formatReceiptList(Picked(matching, pick), TRUE)
              /\ NonIncreasing(Picked(matching, pick))
              /\ \A i \in 1..Len(matching) :
                   (\A k \in 1..n : pick[k] # i) =>
                     \A k \in 1..n : matching[pick[k]].amount >= matching[i].amount

\* the text after the list of get_unreimbursed_expenses
TotalUnreimbursed(listed) ==
  NewLine \o NewLine \o <<"Total unreimbursed: ">> \o <<"$">>
    \o ToFixed2(SumAmounts(listed)) \o <<" (">> \o ToDigits(Len(listed))
    \o <<" receipts)">>

\* the answer lists the wanted receipts and only those, in non-increasing
\* order of amount, with their sum and their number
ListsExactly(wanted) ==
  IF wanted = <<>>
  THEN result = <<"No unreimbursed expenses found matching criteria.">>
  ELSE \E pick \in Picks(wanted, Len(wanted)) :
         /\ NonIncreasing(Picked(wanted, pick))
         /\ result = formatReceiptList(Picked(wanted, pick), FALSE)
                       \o TotalUnreimbursed(Picked(wanted, pick))

\* C23 as stated: get_unreimbursed_expenses lists exactly the receipts with
\* isReimbursed false, amount >= minAmount (0 when left out) and, when a year
\* is given, that year, in non-increasing order of amount, with their sum and
\* their number; no reimbursed receipt is listed.
UnreimbursedOfTheGivenYear ==
  (pc = "answered" /\ call.name = "get_unreimbursed_expenses") =>
    LET year == call.rest.year
        least == IF call.rest.minAmount = <<>> THEN 0 ELSE call.rest.minAmount[1]
    IN ListsExactly(SelectSeq(validReceipts,
                              LAMBDA r : /\ ~r.isReimbursed
                                         /\ r.amount >= least
                                         /\ year # <<>> => r.year = year[1]))

\* C23: get_unreimbursed_expenses lists exactly the receipts with
\* isReimbursed false, amount >= minAmount (0 when left out) and, when a year
\* other than '' is given, that year, in non-increasing order of amount,
\* with their sum and their number; no reimbursed receipt is listed. With
\* the year '' it lists the receipts of every year.
UnreimbursedOfTheNonEmptyYear ==
  (pc = "answered" /\ call.name = "get_unreimbursed_expenses") =>
    LET year == call.rest.year
        least == IF call.rest.minAmount = <<>> THEN 0 ELSE call.rest.minAmount[1]
    IN ListsExactly(SelectSeq(validReceipts,
                              LAMBDA r : /\ ~r.isReimbursed
                                         /\ r.amount >= least
                                         /\ (year # <<>> /\ year[1] # <<>>)
                                              => r.year = year[1]))

\* two receipts listed for a year and a least amount, and a reimbursed
\* receipt of that year that is left out
UnreimbursedListedWitness ==
  /\ pc = "answered"
  /\ call.name = "get_unreimbursed_expenses"
  /\ call.rest.year = <<Year2021>>
  /\ call.rest.minAmount = <<1000>>
  /\ Len(validReceipts) = 3
  /\ \E i \in 1..3 : validReceipts[i].isReimbursed /\ validReceipts[i].year = Year2021
  /\ Len(SelectSeq(validReceipts, LAMBDA r : ~r.isReimbursed /\ r.amount >= 1000)) = 2

----------------------------------------------------------------------------
(* startCopilotAnalysis: the menu loop, the chat loop and the handler of   *)
(* the session's events. The function is async: it runs up to an await,   *)
(* and the handler runs between two such runs. pc is the await the         *)
(* function stands at: "menu" and "chat" are the two calls of question,    *)
(* "sending" is await session.send and "waiting" is await done.            *)

MaxPrompts == 2

MaxIdleEvents == 3

MaxInputs == 4

\* the variables startCopilotAnalysis does not touch
analysisInputs ==
  <<fileName, parsed, fileNames, idx, expensesByYear, reimbursementsByYear,
    receiptCounts, invalidFiles, expensesByCategory, validReceipts, inherited,
    mainVars>>

\* A promise done is 0 while it is pending, and else the number of the
\* session.idle event whose handler resolved it.
Pending == 0

\* a bug: the loop goes on whether or not the promise is resolved
SettledAlways(promise) == TRUE

\* await done returns once the promise is resolved
Settled(promise) == promise # Pending

\* after client.start, createSession and session.on: at the menu
InitCopilot ==
  /\ pc = "menu"
  /\ loop = "menu"
  /\ currentResolve = <<>>
  /\ promises = <<>>
  /\ sends = <<>>
  /\ idleCount = 0
  /\ asked = 0
  /\ fileName = <<>>
  /\ parsed = NoCall
  /\ fileNames = <<>>
  /\ idx = 0
  /\ expensesByYear = EmptyObject
  /\ reimbursementsByYear = EmptyObject
  /\ receiptCounts = EmptyObject
  /\ invalidFiles = <<>>
  /\ expensesByCategory = EmptyObject
  /\ validReceipts = <<>>
  /\ inherited = InitInherited
  /\ directory = <<>>
  /\ argv = [byCategory |-> FALSE, summaryOnly |-> FALSE]
  /\ call = <<>>
  /\ exitCode = <<>>
  /\ thrown = <<>>
  /\ printed = <<>>
  /\ years = <<>>
  /\ stats = <<>>
  /\ result = <<>>

\* await question(...) returns a line of input
Question ==
  /\ asked < MaxInputs
  /\ asked' = asked + 1

\* const done = new Promise(resolve => { currentResolve = resolve });
\* await session.send({ prompt })
StartSend ==
  /\ Len(sends) < MaxPrompts
  /\ promises' = Append(promises, Pending)
  /\ currentResolve' = <<Len(promises) + 1>>
  /\ sends' = Append(sends, [idleBefore |-> idleCount, outcome |-> "pending",
                             idleAtOutcome |-> 0])
  /\ pc' = "sending"

\* 0, exit or quit: break, rl.close, session.destroy, client.stop
MenuExit ==
  /\ pc = "menu"
  /\ Question
  /\ pc' = "closed"
  /\ UNCHANGED <<loop, currentResolve, promises, sends, idleCount>>
  /\ UNCHANGED analysisInputs

\* not a number of a template: continue
MenuInvalid ==
  /\ pc = "menu"
  /\ Question
  /\ UNCHANGED <<pc, loop, currentResolve, promises, sends, idleCount>>
  /\ UNCHANGED analysisInputs

\* a template with a prompt
MenuTemplate ==
  /\ pc = "menu"
  /\ Question
  /\ StartSend
  /\ UNCHANGED <<loop, idleCount>>
  /\ UNCHANGED analysisInputs

\* the template whose prompt is null: the chat loop
MenuCustom ==
  /\ pc = "menu"
  /\ Question
  /\ pc' = "chat"
  /\ loop' = "chat"
  /\ UNCHANGED <<currentResolve, promises, sends, idleCount>>
  /\ UNCHANGED analysisInputs

\* an empty line: continue
ChatEmpty ==
  /\ pc = "chat"
  /\ Question
  /\ UNCHANGED <<pc, loop, currentResolve, promises, sends, idleCount>>
  /\ UNCHANGED analysisInputs

\* back, menu or done: break, then continue of the menu loop
ChatBack ==
  /\ pc = "chat"
  /\ Question
  /\ pc' = "menu"
  /\ loop' = "menu"
  /\ UNCHANGED <<currentResolve, promises, sends, idleCount>>
  /\ UNCHANGED analysisInputs

\* a question for the model
ChatSend ==
  /\ pc = "chat"
  /\ Question
  /\ StartSend
  /\ UNCHANGED <<loop, idleCount>>
  /\ UNCHANGED analysisInputs

\* session.send resolves: on to await done
SendResolves ==
  /\ pc = "sending"
  /\ sends' = [sends EXCEPT ![Len(sends)].outcome = "accepted",
                            ![Len(sends)].idleAtOutcome = idleCount]
  /\ pc' = "waiting"
  /\ UNCHANGED <<loop, currentResolve, promises, idleCount, asked>>
  /\ UNCHANGED analysisInputs

\* session.send rejects: catch (err), the error is printed, and the loop the
\* send was made in goes on. currentResolve is left as it is.
SendRejects ==
  /\ pc = "sending"
  /\ sends' = [sends EXCEPT ![Len(sends)].outcome = "failed",
                            ![Len(sends)].idleAtOutcome = idleCount]
  /\ pc' = loop
  /\ UNCHANGED <<loop, currentResolve, promises, idleCount, asked>>
  /\ UNCHANGED analysisInputs

\* await done returns
AwaitDone ==
  /\ pc = "waiting"
  /\ Settled(promises[Len(promises)])
  /\ pc' = loop
  /\ UNCHANGED <<loop, currentResolve, promises, sends, idleCount, asked>>
  /\ UNCHANGED analysisInputs

\* The handler of session.on for an event of type session.idle, which the
\* session may deliver at any await until it is destroyed. (For an
\* assistant.message_delta the handler only writes to stdout.)
SessionIdle ==
  /\ pc \in {"menu", "chat", "sending", "waiting"}
  /\ idleCount < MaxIdleEvents
  /\ idleCount' = idleCount + 1
  /\ IF currentResolve # <<>>
     THEN /\ promises' = [promises EXCEPT ![currentResolve[1]] = idleCount + 1]
          /\ currentResolve' = <<>>
     ELSE UNCHANGED <<promises, currentResolve>>
  /\ UNCHANGED <<pc, loop, sends, asked>>
  /\ UNCHANGED analysisInputs

NextCopilot ==
  \/ MenuExit
  \/ MenuInvalid
  \/ MenuTemplate
  \/ MenuCustom
  \/ ChatEmpty
  \/ ChatBack
  \/ ChatSend
  \/ SendResolves
  \/ SendRejects
  \/ AwaitDone
  \/ SessionIdle

SpecCopilot == InitCopilot /\ [][NextCopilot]_vars

----------------------------------------------------------------------------
(* Properties of startCopilotAnalysis                                      *)

\* a prompt is in flight from the start of its send until the send fails or
\* a session.idle event is delivered
InFlight(i) == sends[i].outcome # "failed" /\ idleCount = sends[i].idleBefore

\* the function stands at an await of a prompt
PromptAwaited == pc \in {"sending", "waiting"}

\* a step that reads a line of input or starts a send
ReadsOrSends == asked' # asked \/ Len(sends') # Len(sends)

\* a step of the handler for session.idle
IdleDelivered == idleCount' # idleCount

\* a step in which the send of a prompt fails
SendFails ==
  /\ Len(sends') = Len(sends)
  /\ \E i \in 1..Len(sends) :
       sends[i].outcome = "pending" /\ sends'[i].outcome = "failed"

\* what the claim says of the loops: no input is read and nothing is sent
\* while a prompt is in flight, and a failed send returns to the loop
LoopAwaitsThePrompt ==
  /\ ReadsOrSends => \A i \in 1..Len(sends) : ~InFlight(i)
  /\ SendFails => pc' \in {"menu", "chat"} /\ pc' = loop

\* C30 as stated: at most one prompt is in flight; after a send is started
\* no input is read and nothing is sent until a session.idle event is
\* delivered after that start or the send fails; a session.idle event that
\* arrives while no prompt is awaited resolves nothing; and a failed send
\* returns to the loop instead of ending the session.
IdleResolvesNothingUnawaited ==
  /\ [](Cardinality({i \in 1..Len(sends) : InFlight(i)}) <= 1)
  /\ [][/\ LoopAwaitsThePrompt
        /\ (IdleDelivered /\ ~PromptAwaited) => promises' = promises]_vars

\* C30: at most one prompt is in flight; after a send is started no input is
\* read and nothing is sent until a session.idle event is delivered after
\* that start or the send fails; a failed send returns to the loop instead
\* of ending the session; and a session.idle event that arrives while no
\* prompt is awaited moves the loop nowhere and resolves no promise but the
\* abandoned one of a send that has failed, whose resolver is still kept.
IdleWakesNothingUnawaited ==
  /\ [](Cardinality({i \in 1..Len(sends) : InFlight(i)}) <= 1)
  /\ [][/\ LoopAwaitsThePrompt
        /\ (IdleDelivered /\ ~PromptAwaited) =>
             /\ pc' = pc
             /\ \A i \in 1..Len(promises) :
                  promises'[i] # promises[i] => sends[i].outcome = "failed"]_vars

\* a send has failed and a later session.idle event, delivered at the menu
\* or in the chat, has resolved its promise; a second prompt was sent after
AbandonedPromiseWitness ==
  /\ Len(sends) = 2
  /\ sends[1].outcome = "failed"
  /\ promises[1] > sends[1].idleAtOutcome
  /\ sends[2].idleBefore >= promises[1]
  /\ sends[2].outcome = "accepted"
  /\ promises[2] # Pending
  /\ pc = loop

====
